---- MODULE Spec2Model ----
(***************************************************************************)
(* A model of the Python package MCP server:                               *)
(*   - the manifest parsers and the mtime-cached ProjectAnalyzer           *)
(*     (src/src/mcp_server/project_analyzer.py),                           *)
(*   - the Version Resolver, the Package Metadata Resolver, the            *)
(*     Compatibility Checker, the latest-version lookup and the registry   *)
(*     search (src/src/mcp_server/package_manager.py),                     *)
(*   - the search_packages tool (src/src/mcp_server/server.py).            *)
(* Texts (requirement strings, constraint strings, version strings) are    *)
(* modelled as small records; parsing and formatting are operators on      *)
(* them, so that a parse/format round trip normalises as the library does. *)
(***************************************************************************)
EXTENDS Integers, Sequences, FiniteSets, TLC

\* ------------------------------------------------------------------ bounds
\* Environment edits (writes, touches, removals of manifest files) per run.
MaxEdits == 1
\* Versions are 1..MaxVer in precedence order: 2k-1 is the release candidate
\* "k.0rc1" and 2k is the final release "k.0".
MaxVer == 4
\* Largest number of keys of a release map handed to _choose_version.
MaxKeys == 2
\* Largest number of keys of the release map of a registry project.
MaxRegKeys == 2
\* Largest number of existing dependencies handed to check_compatibility.
MaxDeps == 2
\* Largest number of package links on a search result page.
MaxAnchors == 2
\* Largest limit passed to a search.
MaxLimit == 2
\* Largest number of lines of a plain-list manifest handed to its parser.
MaxLines == 3
\* Largest number of optional-dependency groups of a project-metadata file.
MaxGroups == 2
\* Largest number of entries of one section of a Pipfile.
MaxPipEntries == 2

\* ----------------------------------------------------------------- helpers
Range(s) == {s[i] : i \in DOMAIN s}

RECURSIVE Concat(_)
Concat(ss) == IF ss = <<>> THEN <<>> ELSE Head(ss) \o Concat(Tail(ss))

\* ------------------------------------------------ versions and constraints
Versions == 1..MaxVer
IsPrerelease(v) == v % 2 = 1

\* One constraint clause, e.g. ">=2.0" is Clause(">=", 4).
Clause(op, v) == [op |-> op, v |-> v]

\* Character order of the clause strings, the order sorted() puts them in:
\* '<' sorts before '=' and '=' before '>'; "k.0" sorts before "k.0rc1".
OpKey(op) == CASE op = "<" -> 0 [] op = "==" -> 1 [] op = ">=" -> 2
VerKey(v) == IF IsPrerelease(v) THEN v + 2 ELSE v
ClauseBefore(a, b) ==
    \/ OpKey(a.op) < OpKey(b.op)
    \/ OpKey(a.op) = OpKey(b.op) /\ VerKey(a.v) < VerKey(b.v)

\* A string that is read as a version constraint: its comma separated clauses
\* as written, or free text (msg # "") that is no constraint at all.
SpecText(clauses) == [clauses |-> clauses, msg |-> ""]
MsgText(msg) == [clauses |-> <<>>, msg |-> msg]
EmptyText == SpecText(<<>>)
\* Python truthiness of a str: the empty string is falsy.
TextTruthy(t) == t.clauses # <<>> \/ t.msg # ""

\* str(SpecifierSet): the distinct clauses, sorted by their strings.
RECURSIVE SortedClauses(_)
SortedClauses(S) ==
    IF S = {} THEN <<>>
    ELSE LET m == CHOOSE c \in S : \A d \in S \ {c} : ClauseBefore(c, d)
         IN  <<m>> \o SortedClauses(S \ {m})
StrSpecifierSet(S) == SpecText(SortedClauses(S))

\* ------------------------------------------------------ requirement strings
\* A requirement string "name[extras]constraint" as written, or a string that
\* is no requirement (valid = FALSE), such as "invalid requirement with spaces".
ReqText(name, extras, clauses) ==
    [valid |-> TRUE, name |-> name, extras |-> extras, clauses |-> clauses]
BadReqText(text) ==
    [valid |-> FALSE, name |-> text, extras |-> <<>>, clauses |-> <<>>]

\* The extras that occur, in lexicographic order (what sorted() yields).
ExtraOrder == <<"security", "socks">>
SortedExtras(S) == SelectSeq(ExtraOrder, LAMBDA e : e \in S)

\* packaging.requirements.Requirement(text): its name, its SpecifierSet (a set
\* of clauses) and its extras (a set); ok = FALSE stands for InvalidRequirement.
Requirement(text) ==
    [ok |-> text.valid, name |-> text.name,
     specifier |-> Range(text.clauses), extras |-> Range(text.extras)]

\* models.Dependency
Dependency(name, version_spec, extras, source_file, is_dev) ==
    [name |-> name, version_spec |-> version_spec, extras |-> extras,
     source_file |-> source_file, is_dev_dependency |-> is_dev]

\* The Dependency every parser builds from a parsed requirement.
DepOfReq(req, file_path, is_dev) ==
    Dependency(req.name,
               IF req.specifier # {} THEN StrSpecifierSet(req.specifier) ELSE EmptyText,
               IF req.extras # {} THEN SortedExtras(req.extras) ELSE <<>>,
               file_path, is_dev)

\* What a parser call ends with: its dependency list, or the exception raised.
Parsed(deps) == [status |-> "ok", deps |-> deps, msg |-> ""]
Raised(exc, msg) == [status |-> exc, deps |-> <<>>, msg |-> msg]

\* --------------------------------------------------------- manifest files
DEPENDENCY_FILE_NAMES == <<"requirements.txt", "pyproject.toml", "Pipfile", "setup.py">>
FileNames == Range(DEPENDENCY_FILE_NAMES)
Dirs == {"A", "B"}

\* A file of the file system: absent, or its content and modification time.
Absent == [exists |-> FALSE, mtime |-> 0, content |-> [lines |-> <<>>]]
File(content, mtime) == [exists |-> TRUE, mtime |-> mtime, content |-> content]

\* Lines of a plain-list manifest.
Line(text) == [kind |-> "req", text |-> text]
Blank == [kind |-> "blank", text |-> BadReqText("")]
Comment == [kind |-> "comment", text |-> BadReqText("# comment")]

\* The requirement strings the manifests below are written with.
ReqA == ReqText("requests", <<>>, <<Clause(">=", 2), Clause("<", 4)>>)
ReqB == ReqText("httpx", <<"socks", "security">>, <<>>)
ReqC == ReqText("pytest", <<>>, <<Clause("==", 2)>>)
ReqBad == BadReqText("invalid requirement with spaces")

\* requirements.txt: a list of lines.
Requirements(lines) == [lines |-> lines]
GoodRequirements == Requirements(<<Comment, Line(ReqA), Blank, Line(ReqB)>>)
RequirementsContents ==
    { Requirements(<<Line(ReqA)>>),
      GoodRequirements,
      Requirements(<<Line(ReqA), Line(ReqBad), Line(ReqB)>>) }

\* pyproject.toml: whether the document is TOML at all, [project].dependencies
\* and [project.optional-dependencies] as (group, entries) in document order.
Pyproject(toml_ok, dependencies, optional) ==
    [toml_ok |-> toml_ok, dependencies |-> dependencies, optional |-> optional]
Group(name, entries) == [group |-> name, entries |-> entries]
GoodPyproject ==
    Pyproject(TRUE, <<ReqA>>, <<Group("Dev", <<ReqC>>), Group("extra", <<ReqB>>)>>)
PyprojectContents ==
    { GoodPyproject,
      Pyproject(FALSE, <<>>, <<>>),
      Pyproject(TRUE, <<ReqA, ReqBad>>, <<Group("test", <<ReqC>>)>>) }

\* Pipfile: [packages] and [dev-packages] as (name, value) in document order.
\* A value is a string ("*" or a constraint, ok = FALSE when it is neither)
\* or a table with an optional version field.
PipEntry(name, name_ok, value) == [name |-> name, name_ok |-> name_ok, value |-> value]
PipStr(star, ok, clauses) == [kind |-> "str", star |-> star, ok |-> ok, clauses |-> clauses]
PipDict(ok, clauses) == [kind |-> "dict", star |-> FALSE, ok |-> ok, clauses |-> clauses]
Pipfile(toml_ok, packages, dev_packages) ==
    [toml_ok |-> toml_ok, packages |-> packages, dev_packages |-> dev_packages]
GoodPipfile ==
    Pipfile(TRUE,
            <<PipEntry("requests", TRUE, PipStr(TRUE, TRUE, <<>>)),
              PipEntry("httpx", TRUE, PipStr(FALSE, FALSE, <<>>))>>,
            <<PipEntry("pytest", TRUE, PipDict(TRUE, <<Clause(">=", 2)>>))>>)
PipfileContents ==
    { GoodPipfile,
      Pipfile(FALSE, <<>>, <<>>),
      Pipfile(TRUE,
              <<PipEntry("requests", TRUE, PipStr(FALSE, TRUE, <<Clause("==", 4)>>)),
                PipEntry("bad name", FALSE, PipStr(TRUE, TRUE, <<>>))>>,
              <<>>) }

\* setup.py: whether it is Python at all, and the elements of the
\* install_requires list of its setup() call (string literals or not).
SetupElt(literal, text) == [literal |-> literal, text |-> text]
SetupPy(syntax_ok, install_requires) ==
    [syntax_ok |-> syntax_ok, install_requires |-> install_requires]
GoodSetupPy ==
    SetupPy(TRUE, <<SetupElt(TRUE, ReqA), SetupElt(FALSE, ReqB), SetupElt(TRUE, ReqBad)>>)
SetupContents == {GoodSetupPy, SetupPy(FALSE, <<>>)}

ContentsOf(n) ==
    CASE n = "requirements.txt" -> RequirementsContents
      [] n = "pyproject.toml" -> PyprojectContents
      [] n = "Pipfile" -> PipfileContents
      [] n = "setup.py" -> SetupContents

\* ------------------------------------------------------- manifest parsers
\* The line loop with each record put in front of the list instead of behind.
RECURSIVE ReqLines_Prepend(_, _, _)
ReqLines_Prepend(lines, file_path, deps) ==
    IF lines = <<>> THEN Parsed(deps)
    ELSE LET line == Head(lines) IN
         IF line.kind \in {"blank", "comment"}
         THEN ReqLines_Prepend(Tail(lines), file_path, deps)
         ELSE LET req == Requirement(line.text) IN
              IF ~req.ok THEN Raised("ParsingError", "Invalid requirement line")
              ELSE ReqLines_Prepend(Tail(lines), file_path,
                                    <<DepOfReq(req, file_path, FALSE)>> \o deps)

\* DependencyParser.parse_requirements_txt: blank and comment lines are
\* skipped, the first malformed line aborts the file with ParsingError.
RECURSIVE ReqLines(_, _, _)
ReqLines(lines, file_path, deps) ==
    IF lines = <<>> THEN Parsed(deps)
    ELSE LET line == Head(lines) IN
         IF line.kind \in {"blank", "comment"}
         THEN ReqLines(Tail(lines), file_path, deps)
         ELSE LET req == Requirement(line.text) IN
              IF ~req.ok THEN Raised("ParsingError", "Invalid requirement line")
              ELSE ReqLines(Tail(lines), file_path,
                            Append(deps, DepOfReq(req, file_path, FALSE)))
parse_requirements_txt(file, file_path) ==
    IF ~file.exists THEN Raised("FileSystemError", "File not found")
    ELSE ReqLines(file.content.lines, file_path, <<>>)

\* A list of requirement entries, each passed to Requirement() unguarded: the
\* first invalid one raises InvalidRequirement out of the parser.
RECURSIVE ReqEntries(_, _, _, _)
ReqEntries(entries, file_path, is_dev, deps) ==
    IF entries = <<>> THEN Parsed(deps)
    ELSE LET req == Requirement(Head(entries)) IN
         IF ~req.ok THEN Raised("InvalidRequirement", "Invalid requirement")
         ELSE ReqEntries(Tail(entries), file_path, is_dev,
                         Append(deps, DepOfReq(req, file_path, is_dev)))

\* str.lower() on the group names that occur.
Lower(g) == CASE g = "Dev" -> "dev" [] g = "TEST" -> "test" [] OTHER -> g
DevGroups == {"dev", "test", "tests", "lint", "doc", "docs", "build"}

\* The group loop with the group name compared as written (no lower()).
RECURSIVE OptGroups_CaseSensitive(_, _, _)
OptGroups_CaseSensitive(groups, file_path, deps) ==
    IF groups = <<>> THEN Parsed(deps)
    ELSE LET g == Head(groups)
             is_dev == g.group \in DevGroups
             r == ReqEntries(g.entries, file_path, is_dev, deps)
         IN  IF r.status # "ok" THEN r
             ELSE OptGroups_CaseSensitive(Tail(groups), file_path, r.deps)

RECURSIVE OptGroups(_, _, _)
OptGroups(groups, file_path, deps) ==
    IF groups = <<>> THEN Parsed(deps)
    ELSE LET g == Head(groups)
             is_dev == Lower(g.group) \in DevGroups
             r == ReqEntries(g.entries, file_path, is_dev, deps)
         IN  IF r.status # "ok" THEN r
             ELSE OptGroups(Tail(groups), file_path, r.deps)

\* DependencyParser.parse_pyproject_toml: an unreadable or non-TOML document
\* is a ParsingError; the entries are then parsed one by one.
parse_pyproject_toml(file, file_path) ==
    IF ~file.exists \/ ~file.content.toml_ok
    THEN Raised("ParsingError", "Failed to parse pyproject.toml")
    ELSE LET r == ReqEntries(file.content.dependencies, file_path, FALSE, <<>>)
         IN  IF r.status # "ok" THEN r
             ELSE OptGroups(file.content.optional, file_path, r.deps)

\* One Pipfile entry: Requirement(name + version), and on failure
\* Requirement(name), which is not guarded.
PipVersionOk(value) == value.star \/ value.ok
PipVersionClauses(value) == IF value.star THEN <<>> ELSE value.clauses
PipRequirement(entry) ==
    IF entry.name_ok /\ PipVersionOk(entry.value)
    THEN Requirement(ReqText(entry.name, <<>>, PipVersionClauses(entry.value)))
    ELSE Requirement([valid |-> entry.name_ok, name |-> entry.name,
                      extras |-> <<>>, clauses |-> <<>>])

RECURSIVE PipSection(_, _, _, _)
PipSection(entries, file_path, is_dev, deps) ==
    IF entries = <<>> THEN Parsed(deps)
    ELSE LET req == PipRequirement(Head(entries)) IN
         IF ~req.ok THEN Raised("InvalidRequirement", "Invalid requirement")
         ELSE PipSection(Tail(entries), file_path, is_dev,
                         Append(deps, DepOfReq(req, file_path, is_dev)))

\* DependencyParser.parse_pipfile
parse_pipfile(file, file_path) ==
    IF ~file.exists \/ ~file.content.toml_ok
    THEN Raised("ParsingError", "Failed to parse Pipfile")
    ELSE LET r == PipSection(file.content.packages, file_path, FALSE, <<>>)
         IN  IF r.status # "ok" THEN r
             ELSE PipSection(file.content.dev_packages, file_path, TRUE, r.deps)

\* DependencyParser.parse_setup_py: only string literals of install_requires
\* are read, and the ones that are no requirement are skipped.
RECURSIVE SetupEntries(_, _, _)
SetupEntries(elts, file_path, deps) ==
    IF elts = <<>> THEN Parsed(deps)
    ELSE LET e == Head(elts)
             req == Requirement(e.text)
         IN  IF ~e.literal \/ ~req.ok
             THEN SetupEntries(Tail(elts), file_path, deps)
             ELSE SetupEntries(Tail(elts), file_path,
                               Append(deps, DepOfReq(req, file_path, FALSE)))
parse_setup_py(file, file_path) ==
    IF ~file.exists \/ ~file.content.syntax_ok
    THEN Raised("ParsingError", "Failed to parse setup.py")
    ELSE SetupEntries(file.content.install_requires, file_path, <<>>)

\* ================================================================== state
VARIABLES
    fs,         \* the file system: fs[d][n] is manifest n of directory d
    edits,      \* the clock: how many environment edits have happened
    cache,      \* ProjectAnalyzer._cache: insertion order and entries
    prev,       \* per directory, the previous completed analyze_project call
    last,       \* the analyze_project call that completed last (sequential use)
    th,         \* concurrent analyze_project calls: each caller's frame
    cv,         \* the _choose_version call being resolved: inputs and result
    installed,  \* the local environment: the installed version per package
    registry,   \* the registry: per package, its project data or unreachable
    pk,         \* the get_package_info call that completed last
    cc,         \* the check_compatibility call: inputs, registry answers, result
    sr,         \* the search_packages tool call: inputs, registry answers, result
    lv,         \* the get_latest_version call: inputs, registry answer, result
    pr,         \* the parser call: the manifest's kind and content, and the result
    gd          \* the get_dependencies call that ends the run, and its result

analyzerVars == <<fs, edits, cache, prev, last>>
managerVars == <<cv, installed, registry, pk, cc, sr, lv>>
vars == <<fs, edits, cache, prev, last, th, cv, installed, registry, pk, cc, sr, lv, pr, gd>>

\* ------------------------------------------------------- project analyzer
\* str(root / name)
PathOf(d, n) == <<d, n>>
FileAt(F, path) == F[path[1]][path[2]]

\* _CacheEntry
CacheEntry(mtimes, dependencies, files) ==
    [mtimes |-> mtimes, dependencies |-> dependencies, files |-> files]
NoMtimes == [p \in {} |-> 0]
EmptyEntry == CacheEntry(NoMtimes, <<>>, <<>>)

\* The dict _cache: its keys in insertion order, and its entries.
EmptyCache == [order |-> <<>>, map |-> [k \in {} |-> EmptyEntry]]
InCache(c, key) == key \in DOMAIN c.map
\* self._cache.get(key) or _CacheEntry()
CacheGet(c, key) == IF InCache(c, key) THEN c.map[key] ELSE EmptyEntry
\* A cache that keeps the entry written last and drops the others.
CachePut_Evict(c, key, entry) ==
    [order |-> <<key>>, map |-> [k \in {key} |-> entry]]

\* self._cache[key] = entry: a key already present keeps its position.
CachePut(c, key, entry) ==
    [order |-> IF InCache(c, key) THEN c.order ELSE Append(c.order, key),
     map |-> [k \in DOMAIN c.map \cup {key} |-> IF k = key THEN entry ELSE c.map[k]]]

\* ProjectAnalyzer._scan_files: the manifests that exist, in the fixed order.
ScanFiles(F, d) ==
    LET names == SelectSeq(DEPENDENCY_FILE_NAMES, LAMBDA n : F[d][n].exists)
    IN  [i \in DOMAIN names |-> PathOf(d, names[i])]

\* mtimes = {f: os.path.getmtime(f) for f in files}
GetMtimes(F, files) == [p \in Range(files) |-> FileAt(F, p).mtime]

\* needs_refresh with the mtime comparison written against the whole dict
\* (cached.mtimes.get(f) != mtimes): true as soon as any path is known.
NeedsRefresh_WholeDict(files, mtimes, cached) ==
    \/ files # cached.files
    \/ Range(files) \cup DOMAIN cached.mtimes # {}

\* needs_refresh that compares the file lists only.
NeedsRefresh_FilesOnly(files, mtimes, cached) == files # cached.files

\* needs_refresh: the file lists differ, or over the union of the current and
\* the cached paths some cached.mtimes.get(f) differs from mtimes.get(f).
NeedsRefresh(files, mtimes, cached) ==
    \/ files # cached.files
    \/ \E f \in Range(files) \cup DOMAIN cached.mtimes :
          \/ (f \in DOMAIN cached.mtimes) # (f \in DOMAIN mtimes)
          \/ /\ f \in DOMAIN cached.mtimes
             /\ f \in DOMAIN mtimes
             /\ cached.mtimes[f] # mtimes[f]

\* The parser chosen by the suffix of the path.
ParseFile(F, f) ==
    CASE f[2] = "requirements.txt" -> parse_requirements_txt(FileAt(F, f), f)
      [] f[2] = "pyproject.toml" -> parse_pyproject_toml(FileAt(F, f), f)
      [] f[2] = "Pipfile" -> parse_pipfile(FileAt(F, f), f)
      [] f[2] = "setup.py" -> parse_setup_py(FileAt(F, f), f)

\* The exceptions analyze_project catches around a parser call.
Caught == {"FileSystemError", "ParsingError"}
ParseErrorDep(r, f) == Dependency("__parse_error__", MsgText(r.msg), <<>>, f, FALSE)

\* One round of the refresh loop on file f, given the dependencies so far:
\* the parser's list is appended, a caught error becomes one sentinel, any
\* other exception leaves the loop (and the call).
RefreshStep(F, f, deps) ==
    LET r == ParseFile(F, f) IN
    IF r.status = "ok" THEN Parsed(deps \o r.deps)
    ELSE IF r.status \in Caught THEN Parsed(Append(deps, ParseErrorDep(r, f)))
    ELSE r

\* The whole refresh loop over files[i..]: its outcome and the files a parser
\* was invoked on.
RECURSIVE RefreshLoop(_, _, _, _, _)
RefreshLoop(F, files, i, deps, parsed) ==
    IF i > Len(files) THEN [status |-> "ok", deps |-> deps, parsed |-> parsed]
    ELSE LET r == RefreshStep(F, files[i], deps) IN
         IF r.status # "ok"
         THEN [status |-> r.status, deps |-> <<>>, parsed |-> Append(parsed, files[i])]
         ELSE RefreshLoop(F, files, i + 1, r.deps, Append(parsed, files[i]))

\* The dependencies analyze_project returns: those of the cache slot, read
\* when the call returns.
ReturnedDeps(c, key) == IF InCache(c, key) THEN c.map[key].dependencies ELSE <<>>

\* What the file system shows of a directory's manifests without reading
\* them: which exist, and their modification times.
Meta(F, d) == [n \in FileNames |-> [exists |-> F[d][n].exists, mtime |-> F[d][n].mtime]]

NoCall == [called |-> FALSE]
\* The record kept of a completed call: what it returned or raised, the files
\* its parsers were invoked on, what the file system showed when it ran, the
\* clock then, and the record of the call before it on the same directory.
CallRecord(d, files, loop, needs_refresh, deps, before) ==
    [called |-> TRUE, dir |-> d,
     outcome |-> IF loop.status = "ok" THEN "returned" ELSE "raised",
     exc |-> IF loop.status = "ok" THEN "" ELSE loop.status,
     dependency_files |-> files,
     dependencies |-> deps,
     refreshed |-> needs_refresh,
     parsed |-> loop.parsed,
     meta |-> Meta(fs, d),
     at |-> edits,
     before |-> before]
Brief(call) ==
    [called |-> TRUE, outcome |-> call.outcome,
     dependencies |-> call.dependencies, meta |-> call.meta]

\* ProjectAnalyzer.analyze_project(d) as one step (sequential use).
AnalyzeProject(d) ==
    \E files \in {ScanFiles(fs, d)} :
    \E cached \in {CacheGet(cache, d)} :
    \E mtimes \in {GetMtimes(fs, files)} :
    \E needs_refresh \in {NeedsRefresh(files, mtimes, cached)} :
    \E loop \in {IF needs_refresh THEN RefreshLoop(fs, files, 1, <<>>, <<>>)
                 ELSE [status |-> "ok", deps |-> <<>>, parsed |-> <<>>]} :
    \E newCache \in {IF needs_refresh /\ loop.status = "ok"
                     THEN CachePut(cache, d, CacheEntry(mtimes, loop.deps, files))
                     ELSE cache} :
    \E call \in {CallRecord(d, files, loop, needs_refresh,
                            IF loop.status = "ok" THEN ReturnedDeps(newCache, d) ELSE <<>>,
                            prev[d])} :
        /\ cache' = newCache
        /\ last' = call
        /\ prev' = [prev EXCEPT ![d] = Brief(call)]
        /\ UNCHANGED <<pr, gd, fs, edits, th, cv, installed, registry, pk, cc, sr, lv>>

\* The environment writes manifest n of directory d (creates it, rewrites it or
\* touches it). Its modification time becomes the current time, or an earlier
\* one (a preserved timestamp, a coarse clock).
WriteFile(d, n) ==
    /\ edits < MaxEdits
    /\ \E c \in ContentsOf(n), m \in 0..(edits + 1) :
          fs' = [fs EXCEPT ![d][n] = File(c, m)]
    /\ edits' = edits + 1
    /\ UNCHANGED <<pr, gd, cache, prev, last, th, cv, installed, registry, pk, cc, sr, lv>>

\* The environment removes manifest n of directory d.
RemoveFile(d, n) ==
    /\ edits < MaxEdits
    /\ fs[d][n].exists
    /\ fs' = [fs EXCEPT ![d][n] = Absent]
    /\ edits' = edits + 1
    /\ UNCHANGED <<pr, gd, cache, prev, last, th, cv, installed, registry, pk, cc, sr, lv>>

\* The environment writes manifest n of directory d at a time of its own: the
\* file's modification time is the clock's, later than every earlier one.
WriteFileFresh(d, n) ==
    /\ WriteFile(d, n)
    /\ fs'[d][n].mtime = edits + 1

\* get_dependencies reading the first key of the cache instead of the last.
get_dependencies_First(c) ==
    IF c.order = <<>> THEN <<>> ELSE c.map[c.order[1]].dependencies

\* ProjectAnalyzer.get_dependencies: the dependencies of the entry under the
\* last key of the cache, in the dict's insertion order.
get_dependencies(c) ==
    IF c.order = <<>> THEN <<>> ELSE c.map[c.order[Len(c.order)]].dependencies

NoGet == [called |-> FALSE, result |-> <<>>]
\* The get_dependencies call of the run.
GetDependencies ==
    /\ ~gd.called
    /\ gd' = [called |-> TRUE, result |-> get_dependencies(cache)]
    /\ UNCHANGED <<fs, edits, cache, prev, last, th, cv, installed, registry, pk, cc, sr, lv, pr>>

\* ------------------------------------------- analyze_project, step by step
\* Concurrent callers of analyze_project on one analyzer. Each step is one
\* access to the file system or to the shared cache; the environment and the
\* other callers may run between any two steps.
Threads == {1, 2}

\* A caller's frame: its position, its locals (files, cached, mtimes, deps), how
\* the call ended and what it returned. own is the dependency list the call
\* itself computed, or found valid in its cached entry; vanished holds the
\* scanned files the call found gone when it came to read them.
Frame(pc, dir, i, files, cached, mtimes, deps, own, outcome, exc, result) ==
    [pc |-> pc, dir |-> dir, i |-> i, files |-> files, cached |-> cached,
     mtimes |-> mtimes, deps |-> deps, own |-> own,
     outcome |-> outcome, exc |-> exc, result |-> result, vanished |-> {}]
IdleFrame == Frame("idle", "A", 1, <<>>, EmptyEntry, NoMtimes, <<>>, <<>>, "", "", <<>>)

\* After the last getmtime: needs_refresh is computed from the caller's own
\* files, mtimes and cached entry; the call goes on to parse or to return.
AfterMtimes(fr, mtimes) ==
    IF NeedsRefresh(fr.files, mtimes, fr.cached)
    THEN [fr EXCEPT !.mtimes = mtimes, !.i = 1, !.deps = <<>>,
                    !.pc = IF fr.files = <<>> THEN "publish" ELSE "parse"]
    ELSE [fr EXCEPT !.mtimes = mtimes, !.pc = "return",
                    !.own = fr.cached.dependencies]

\* After the last exists() of the scan: cached = self._cache.get(key) or
\* _CacheEntry(), then the getmtime loop (empty when nothing was found).
AfterScan(fr, files) ==
    LET g == [fr EXCEPT !.files = files, !.cached = CacheGet(cache, fr.dir), !.i = 1]
    IN  IF files = <<>> THEN AfterMtimes(g, NoMtimes)
        ELSE [g EXCEPT !.pc = "mtimes"]

ThreadStep(t, frame) ==
    /\ th' = [th EXCEPT ![t] = frame]
    /\ UNCHANGED <<pr, gd, fs, edits, cache, prev, last, cv, installed, registry, pk, cc, sr, lv>>

\* A caller enters analyze_project(d).
Call(t, d) ==
    /\ th[t].pc = "idle"
    /\ ThreadStep(t, [IdleFrame EXCEPT !.pc = "scan", !.dir = d])

\* _scan_files: p.exists() for the i-th manifest name.
ScanStep(t) ==
    /\ th[t].pc = "scan"
    /\ LET fr == th[t]
           n == DEPENDENCY_FILE_NAMES[fr.i]
           files == IF fs[fr.dir][n].exists
                    THEN Append(fr.files, PathOf(fr.dir, n)) ELSE fr.files
       IN  ThreadStep(t, IF fr.i = Len(DEPENDENCY_FILE_NAMES)
                         THEN AfterScan(fr, files)
                         ELSE [fr EXCEPT !.files = files, !.i = fr.i + 1])

\* os.path.getmtime(f) for the i-th file found: FileNotFoundError, which
\* nothing catches, when the file is gone.
MtimeStep(t) ==
    /\ th[t].pc = "mtimes"
    /\ LET fr == th[t]
           f == fr.files[fr.i]
           mtimes == [p \in DOMAIN fr.mtimes \cup {f} |->
                        IF p = f THEN FileAt(fs, f).mtime ELSE fr.mtimes[p]]
       IN  ThreadStep(t,
             IF ~FileAt(fs, f).exists
             THEN [fr EXCEPT !.pc = "done", !.outcome = "raised",
                             !.exc = "FileNotFoundError",
                             !.vanished = fr.vanished \cup {f}]
             ELSE IF fr.i = Len(fr.files) THEN AfterMtimes(fr, mtimes)
             ELSE [fr EXCEPT !.mtimes = mtimes, !.i = fr.i + 1])

\* One round of the refresh loop: the parser reads the i-th file now.
ParseStep(t) ==
    /\ th[t].pc = "parse"
    /\ LET fr == th[t]
           f == fr.files[fr.i]
           r == RefreshStep(fs, f, fr.deps)
           gone == IF FileAt(fs, f).exists THEN fr.vanished ELSE fr.vanished \cup {f}
       IN  ThreadStep(t,
             IF r.status # "ok"
             THEN [fr EXCEPT !.pc = "done", !.outcome = "raised", !.exc = r.status,
                             !.vanished = gone]
             ELSE [fr EXCEPT !.deps = r.deps, !.i = fr.i + 1, !.vanished = gone,
                             !.pc = IF fr.i = Len(fr.files) THEN "publish" ELSE "parse"])

\* self._cache[key] = _CacheEntry(mtimes, deps, files)
Publish(t) ==
    /\ th[t].pc = "publish"
    /\ cache' = CachePut(cache, th[t].dir,
                         CacheEntry(th[t].mtimes, th[t].deps, th[t].files))
    /\ th' = [th EXCEPT ![t] = [th[t] EXCEPT !.pc = "return", !.own = th[t].deps]]
    /\ UNCHANGED <<pr, gd, fs, edits, prev, last, cv, installed, registry, pk, cc, sr, lv>>

\* return ProjectInfo(key, files, self._cache[key].dependencies ...): the
\* cache slot is read again here.
Return(t) ==
    /\ th[t].pc = "return"
    /\ ThreadStep(t, [th[t] EXCEPT !.pc = "done", !.outcome = "returned",
                                   !.result = ReturnedDeps(cache, th[t].dir)])

\* The caller takes the result (or the exception) and may call again.
Finish(t) ==
    /\ th[t].pc = "done"
    /\ ThreadStep(t, IdleFrame)

\* --------------------------------------------------------- version strings
\* A version string: version v written in canonical form ("2.0", "2.0rc1") or
\* in a form that parses to v but is not what str(Version) prints ("v2.0",
\* "2.0-rc1"); or a string that is no version (valid = FALSE).
VerStr(v, form) == [valid |-> TRUE, v |-> v, form |-> form]
NotAVersion == [valid |-> FALSE, v |-> 0, form |-> "text"]
EmptyStr == [valid |-> FALSE, v |-> 0, form |-> ""]
VersionKeys == {VerStr(v, form) : v \in Versions, form \in {"canon", "alt"}}
              \cup {NotAVersion}

\* packaging.version.Version(s) succeeds on s; its value; and str() of it.
VersionOk(s) == s.valid
VersionOf(s) == s.v
StrVersion(v) == VerStr(v, "canon")

\* A SpecifierSet argument: None, or the set of its clauses.
NoSpec == [given |-> FALSE, clauses |-> {}]
SpecifierSet(S) == [given |-> TRUE, clauses |-> S]
\* bool(spec): None and the empty SpecifierSet are falsy.
SpecTruthy(spec) == spec.given /\ spec.clauses # {}

\* SpecifierSet.prereleases and Version in SpecifierSet: a pre-release matches
\* only if a clause names a pre-release; "<V" excludes the pre-releases of V.
Prereleases(S) == \E c \in S : c.op \in {"==", ">="} /\ IsPrerelease(c.v)
ClauseContains(c, v) ==
    CASE c.op = ">=" -> v >= c.v
      [] c.op = "==" -> v = c.v
      [] c.op = "<" -> v < c.v /\ ~(~IsPrerelease(c.v) /\ v = c.v - 1)
Contains(S, v) ==
    /\ IsPrerelease(v) => Prereleases(S)
    /\ \A c \in S : ClauseContains(c, v)

\* ------------------------------------------------------- version resolver
\* A release file, and the release-file lists that occur.
RelFile(yanked) == [yanked |-> yanked]
FileLists == {<<>>, <<RelFile(FALSE)>>, <<RelFile(TRUE)>>,
              <<RelFile(TRUE), RelFile(FALSE)>>}

\* releases.get(key, [])
ReleasesGet(releases, key) == IF key \in DOMAIN releases THEN releases[key] ELSE <<>>
\* any(not f.get("yanked", False) for f in files)
AnyNotYanked(files) == \E i \in DOMAIN files : ~files[i].yanked

\* The versions the keys parse to, sorted descending.
ParsedVersions(releases) == {VersionOf(k) : k \in {x \in DOMAIN releases : VersionOk(x)}}
RECURSIVE SortedDescending(_)
SortedDescending(S) ==
    IF S = {} THEN <<>>
    ELSE LET m == CHOOSE x \in S : \A y \in S : y <= x
         IN  <<m>> \o SortedDescending(S \ {m})

\* The scan of _choose_version over versions[i..]: the first version that is
\* in spec (when spec is truthy) and whose files, looked up under str(v),
\* hold a file that is not yanked; the empty string when there is none.
RECURSIVE ChooseScan(_, _, _, _)
ChooseScan(releases, spec, versions, i) ==
    IF i > Len(versions) THEN EmptyStr
    ELSE LET v == versions[i]
             vstr == StrVersion(v)
         IN  IF SpecTruthy(spec) /\ ~Contains(spec.clauses, v)
             THEN ChooseScan(releases, spec, versions, i + 1)
             ELSE IF AnyNotYanked(ReleasesGet(releases, vstr)) THEN vstr
             ELSE ChooseScan(releases, spec, versions, i + 1)

\* _choose_version without its last line's fallback: the empty string when
\* the scan accepts nothing.
choose_version_NoFallback(releases, spec) ==
    ChooseScan(releases, spec, SortedDescending(ParsedVersions(releases)), 1)

\* PackageManager._choose_version
choose_version(releases, spec) ==
    LET versions == SortedDescending(ParsedVersions(releases))
        found == ChooseScan(releases, spec, versions, 1)
    IN  IF found # EmptyStr THEN found
        ELSE IF versions # <<>> THEN StrVersion(versions[1]) ELSE EmptyStr

\* The _choose_version call being resolved.
ChooseVersion ==
    /\ ~cv.done
    /\ cv' = [cv EXCEPT !.done = TRUE, !.result = choose_version(cv.releases, cv.spec)]
    /\ UNCHANGED <<pr, gd, fs, edits, cache, prev, last, th, installed, registry, pk, cc, sr, lv>>

\* ------------------------------------------------ package metadata resolver
Packages == {"requests"}

\* The local environment: a package is not installed, or installed with a
\* version string.
NotInstalled == [present |-> FALSE, version |-> EmptyStr]
Installed(version) == [present |-> TRUE, version |-> version]

\* models.PackageInfo: the name and version fields, and where the record
\* came from.
PackageInfo(name, version, origin) == [name |-> name, version |-> version, origin |-> origin]
NoInfo == PackageInfo("", EmptyStr, "")

\* The registry's answer for one project: unreachable (every request fails),
\* or its release map; release_ok tells whether the per-release request works.
Project(reachable, releases, release_ok) ==
    [reachable |-> reachable, releases |-> releases, release_ok |-> release_ok]
\* info["version"] of the project document: the key of the latest release.
InfoVersion(releases) ==
    LET ks == {k \in DOMAIN releases : VersionOk(k)}
    IN  IF ks = {} THEN EmptyStr
        ELSE CHOOSE k \in ks : /\ \A x \in ks : VersionOf(x) <= VersionOf(k)
                               /\ (k.form = "alt" => StrVersion(VersionOf(k)) \notin ks)

\* The version_spec argument: None, or a string.
NoVersionSpec == [given |-> FALSE, text |-> EmptyText]
VersionSpec(text) == [given |-> TRUE, text |-> text]
\* `if version_spec`: None and "" are falsy.
VersionSpecTruthy(vs) == vs.given /\ TextTruthy(vs.text)
\* SpecifierSet(text): InvalidSpecifier on free text.
SpecifierOk(text) == text.msg = ""
SpecifierOf(text) == SpecifierSet(Range(text.clauses))

\* A registry request, and what a get_package_info call ends with.
Request(kind, name, version) == [kind |-> kind, name |-> name, version |-> version]
Outcome(outcome, exc, result, requests) ==
    [outcome |-> outcome, exc |-> exc, result |-> result, requests |-> requests]

\* The registry path with one retry of a failed get_project request.
RegistryPath_Retry(name, vs, project) ==
    LET get_project == Request("get_project", name, EmptyStr) IN
    IF ~project.reachable
    THEN Outcome("raised", "NetworkError", NoInfo, <<get_project, get_project>>)
    ELSE IF VersionSpecTruthy(vs) /\ ~SpecifierOk(vs.text)
    THEN Outcome("raised", "InvalidSpecifier", NoInfo, <<get_project>>)
    ELSE LET spec == IF VersionSpecTruthy(vs) THEN SpecifierOf(vs.text) ELSE NoSpec
             chosen_version == choose_version(project.releases, spec)
             get_release == Request("get_release", name, chosen_version)
         IN  IF chosen_version # EmptyStr
             THEN IF ~project.release_ok
                  THEN Outcome("raised", "NetworkError", NoInfo,
                               <<get_project, get_release>>)
                  ELSE Outcome("returned", "",
                               PackageInfo(name, chosen_version, "pypi"),
                               <<get_project, get_release>>)
             ELSE Outcome("returned", "",
                          PackageInfo(name, InfoVersion(project.releases), "pypi"),
                          <<get_project>>)

\* The registry path of get_package_info (from "PyPI fallback" on).
RegistryPath(name, vs, project) ==
    LET get_project == Request("get_project", name, EmptyStr) IN
    IF ~project.reachable
    THEN Outcome("raised", "NetworkError", NoInfo, <<get_project>>)
    ELSE IF VersionSpecTruthy(vs) /\ ~SpecifierOk(vs.text)
    THEN Outcome("raised", "InvalidSpecifier", NoInfo, <<get_project>>)
    ELSE LET spec == IF VersionSpecTruthy(vs) THEN SpecifierOf(vs.text) ELSE NoSpec
             chosen_version == choose_version(project.releases, spec)
             get_release == Request("get_release", name, chosen_version)
         IN  IF chosen_version # EmptyStr
             THEN IF ~project.release_ok
                  THEN Outcome("raised", "NetworkError", NoInfo,
                               <<get_project, get_release>>)
                  ELSE Outcome("returned", "",
                               PackageInfo(name, chosen_version, "pypi"),
                               <<get_project, get_release>>)
             ELSE Outcome("returned", "",
                          PackageInfo(name, InfoVersion(project.releases), "pypi"),
                          <<get_project>>)

\* get_package_info without the "no version spec, return local info" branch:
\* the local record is returned only when a constraint is given and met.
get_package_info_NoElse(name, vs, seen, fetched, project) ==
    IF seen.present
    THEN IF ~fetched.present
         THEN Outcome("raised", "NetworkError", NoInfo, <<>>)
         ELSE IF /\ VersionSpecTruthy(vs)
                 /\ VersionOk(fetched.version)
                 /\ SpecifierOk(vs.text)
                 /\ Contains(SpecifierOf(vs.text).clauses, VersionOf(fetched.version))
              THEN Outcome("returned", "", PackageInfo(name, fetched.version, "local"), <<>>)
              ELSE RegistryPath(name, vs, project)
    ELSE RegistryPath(name, vs, project)

\* get_package_info without the try/except around the local constraint test:
\* a local version or a constraint that does not parse raises there.
get_package_info_Unguarded(name, vs, seen, fetched, project) ==
    IF seen.present
    THEN IF ~fetched.present
         THEN Outcome("raised", "NetworkError", NoInfo, <<>>)
         ELSE LET info == PackageInfo(name, fetched.version, "local") IN
              IF VersionSpecTruthy(vs)
              THEN IF ~VersionOk(info.version)
                   THEN Outcome("raised", "InvalidVersion", NoInfo, <<>>)
                   ELSE IF ~SpecifierOk(vs.text)
                   THEN Outcome("raised", "InvalidSpecifier", NoInfo, <<>>)
                   ELSE IF Contains(SpecifierOf(vs.text).clauses, VersionOf(info.version))
                   THEN Outcome("returned", "", info, <<>>)
                   ELSE RegistryPath(name, vs, project)
              ELSE Outcome("returned", "", info, <<>>)
    ELSE RegistryPath(name, vs, project)

\* PackageManager.get_package_info. seen is what is_package_installed finds
\* and fetched what get_local_package_info finds right after it.
get_package_info(name, vs, seen, fetched, project) ==
    IF seen.present
    THEN IF ~fetched.present
         THEN Outcome("raised", "NetworkError", NoInfo, <<>>)
         ELSE LET info == PackageInfo(name, fetched.version, "local") IN
              IF VersionSpecTruthy(vs)
              THEN IF /\ VersionOk(info.version)
                      /\ SpecifierOk(vs.text)
                      /\ Contains(SpecifierOf(vs.text).clauses, VersionOf(info.version))
                   THEN Outcome("returned", "", info, <<>>)
                   ELSE RegistryPath(name, vs, project)
              ELSE Outcome("returned", "", info, <<>>)
    ELSE RegistryPath(name, vs, project)

\* The constraint strings callers pass.
SpecTexts ==
    {EmptyText, MsgText("not a specifier")}
    \cup {SpecText(<<Clause(op, v)>>) : op \in {">=", "<", "=="}, v \in Versions}

\* One get_package_info(name, version_spec) call, as one step. The package may
\* be uninstalled between is_package_installed and get_local_package_info.
\* The resolver keeps no state between calls: a run holds one call.
GetPackageInfo(name) ==
    /\ ~pk.called
    /\ \E vs \in {NoVersionSpec} \cup {VersionSpec(t) : t \in SpecTexts},
          fetched \in {installed[name], NotInstalled} :
       /\ pk' = [called |-> TRUE, name |-> name, version_spec |-> vs,
                 installed |-> installed[name].present, fetched |-> fetched,
                 call |-> get_package_info(name, vs, installed[name],
                                           fetched, registry[name])]
       /\ installed' = [installed EXCEPT ![name] = fetched]
       /\ UNCHANGED <<pr, gd, fs, edits, cache, prev, last, th, cv, registry, cc, sr, lv>>

\* ---------------------------------------------------- compatibility checker
\* One constraint recorded for a name: the pair check_compatibility reads from
\* an existing dependency or from the candidate.
SpecEntry(name, text) == [name |-> name, text |-> text]
\* The candidate's constraint: new_spec, or nothing when it is None or "".
CandidateText(new_spec) == IF VersionSpecTruthy(new_spec) THEN new_spec.text ELSE EmptyText
\* The pairs in the order all_specs receives them: the existing dependencies,
\* then the candidate.
SpecEntries(existing, new_name, new_spec) ==
    [i \in DOMAIN existing |-> SpecEntry(existing[i].name, existing[i].version_spec)]
    \o <<SpecEntry(new_name, CandidateText(new_spec))>>
\* The keys of all_specs in insertion order: each name at its first occurrence.
NamesInOrder(entries) ==
    LET first == SelectSeq([i \in DOMAIN entries |-> i],
                           LAMBDA i : \A j \in 1..(i - 1) : entries[j].name # entries[i].name)
    IN  [k \in DOMAIN first |-> entries[first[k]].name]
\* all_specs[name]: one SpecifierSet per pair recorded for the name, in order.
SpecsOf(entries, name) ==
    LET mine == SelectSeq(entries, LAMBDA e : e.name = name)
    IN  [k \in DOMAIN mine |-> SpecifierOf(mine[k].text)]

\* ok(ver): all(ver in s for s in specs if s)
CompatOk(ver, specs) ==
    \A i \in DOMAIN specs : SpecTruthy(specs[i]) => Contains(specs[i].clauses, ver)

\* The conflict test without its "candidates and" guard.
EmitsConflict_NoGuard(candidates, specs) ==
    ~\E v \in candidates : CompatOk(v, specs)

\* if candidates and not any(ok(v) for v in candidates)
EmitsConflict(candidates, specs) ==
    candidates # {} /\ ~\E v \in candidates : CompatOk(v, specs)

\* The conflict record: the constraints are str() of the SpecifierSets.
Conflict(name, specs) ==
    [package |-> name, reason |-> "No version satisfies all constraints",
     constraints |-> [i \in DOMAIN specs |-> StrSpecifierSet(specs[i].clauses)]]

\* The loop over all_specs in which a failed fetch ends the loop.
RECURSIVE CompatLoop_StopOnFailure(_, _, _, _, _, _)
CompatLoop_StopOnFailure(names, i, entries, projects, conflicts, fetched) ==
    IF i > Len(names) THEN [conflicts |-> conflicts, fetched |-> fetched]
    ELSE LET name == names[i]
             project == projects[name]
             specs == SpecsOf(entries, name)
         IN  IF ~project.reachable
             THEN [conflicts |-> conflicts, fetched |-> Append(fetched, name)]
             ELSE CompatLoop_StopOnFailure(names, i + 1, entries, projects,
                        IF EmitsConflict(ParsedVersions(project.releases), specs)
                        THEN Append(conflicts, Conflict(name, specs)) ELSE conflicts,
                        Append(fetched, name))

\* The loop over all_specs from its i-th name on: get_project(name), skipped
\* when it fails; the conflicts so far and the names fetched so far.
RECURSIVE CompatLoop(_, _, _, _, _, _)
CompatLoop(names, i, entries, projects, conflicts, fetched) ==
    IF i > Len(names) THEN [conflicts |-> conflicts, fetched |-> fetched]
    ELSE LET name == names[i]
             project == projects[name]
             specs == SpecsOf(entries, name)
         IN  IF ~project.reachable
             THEN CompatLoop(names, i + 1, entries, projects, conflicts,
                             Append(fetched, name))
             ELSE CompatLoop(names, i + 1, entries, projects,
                        IF EmitsConflict(ParsedVersions(project.releases), specs)
                        THEN Append(conflicts, Conflict(name, specs)) ELSE conflicts,
                        Append(fetched, name))

\* What a check_compatibility call ends with, and the names it fetched.
CompatOutcome(outcome, exc, conflicts, fetched) ==
    [outcome |-> outcome, exc |-> exc, conflicts |-> conflicts, fetched |-> fetched]
NoCompatCall == CompatOutcome("", "", <<>>, <<>>)

\* PackageManager.check_compatibility: SpecifierSet(text) of every recorded
\* constraint first (InvalidSpecifier on a text that is no constraint), then
\* the loop over the names.
check_compatibility(existing, new_name, new_spec, projects) ==
    LET entries == SpecEntries(existing, new_name, new_spec) IN
    IF \E i \in DOMAIN entries : ~SpecifierOk(entries[i].text)
    THEN CompatOutcome("raised", "InvalidSpecifier", <<>>, <<>>)
    ELSE LET r == CompatLoop(NamesInOrder(entries), 1, entries, projects, <<>>, <<>>)
         IN  CompatOutcome("returned", "", r.conflicts, r.fetched)

\* The check_compatibility call of the run.
CheckCompatibility ==
    /\ ~cc.done
    /\ cc' = [cc EXCEPT !.done = TRUE,
                        !.call = check_compatibility(cc.existing, cc.new_name,
                                                     cc.new_spec, cc.projects)]
    /\ UNCHANGED <<pr, gd, fs, edits, cache, prev, last, th, cv, installed, registry, pk, sr, lv>>

\* ------------------------------------------------------ latest version
\* The project document get_latest_version reads: unreachable, or its release
\* map and info["version"] (the empty string when absent).
LatestProject(reachable, releases, info_version) ==
    [reachable |-> reachable, releases |-> releases, info_version |-> info_version]
\* The dict get_latest_version returns.
LatestResult(name, version, is_prerelease) ==
    [name |-> name, version |-> version, is_prerelease |-> is_prerelease, source |-> "pypi"]
LatestOutcome(outcome, exc, result) == [outcome |-> outcome, exc |-> exc, result |-> result]
NoLatest == LatestOutcome("", "", LatestResult("", EmptyStr, FALSE))
\* Version(latest_str).is_prerelease, False when latest_str is no version.
IsPre(s) == VersionOk(s) /\ IsPrerelease(VersionOf(s))

\* get_latest_version that does not look at the release files.
get_latest_version_AnyFiles(name, project, allow_prerelease) ==
    IF ~project.reachable THEN LatestOutcome("raised", "NetworkError", NoLatest.result)
    ELSE LET versions == {VersionOf(k) : k \in
                            {x \in DOMAIN project.releases :
                                /\ VersionOk(x)
                                /\ allow_prerelease \/ ~IsPrerelease(VersionOf(x))}}
             latest_str == IF versions # {}
                           THEN StrVersion(CHOOSE v \in versions : \A w \in versions : w <= v)
                           ELSE project.info_version
         IN  LatestOutcome("returned", "", LatestResult(name, latest_str, IsPre(latest_str)))

\* PackageManager.get_latest_version
get_latest_version(name, project, allow_prerelease) ==
    IF ~project.reachable THEN LatestOutcome("raised", "NetworkError", NoLatest.result)
    ELSE LET versions == {VersionOf(k) : k \in
                            {x \in DOMAIN project.releases :
                                /\ VersionOk(x)
                                /\ allow_prerelease \/ ~IsPrerelease(VersionOf(x))
                                /\ ~(/\ project.releases[x] # <<>>
                                      /\ ~AnyNotYanked(project.releases[x]))}}
             latest_str == IF versions # {}
                           THEN StrVersion(CHOOSE v \in versions : \A w \in versions : w <= v)
                           ELSE project.info_version
         IN  LatestOutcome("returned", "", LatestResult(name, latest_str, IsPre(latest_str)))

\* The get_latest_version call of the run.
GetLatestVersion ==
    /\ ~lv.done
    /\ lv' = [lv EXCEPT !.done = TRUE,
                        !.call = get_latest_version(lv.name, lv.project, lv.allow_prerelease)]
    /\ UNCHANGED <<pr, gd, fs, edits, cache, prev, last, th, cv, installed, registry, pk, cc, sr>>

\* ------------------------------------------------------------- search
\* A query string: its text without the surrounding white space (a package
\* name, or nothing), and whether white space surrounds it.
Query(text, padded) == [text |-> text, padded |-> padded]
\* query.strip(), and `query and query.strip()`
Strip(q) == Query(q.text, FALSE)
NonBlank(q) == q.text # ""

\* The search result page: the request failed, or the page's package links in
\* page order; match tells whether the link's href holds /project/<name>/.
Page(ok, anchors) == [ok |-> ok, anchors |-> anchors]
Anchor(match, name) == [match |-> match, name |-> name]

\* PyPIClient.search, the loop over the links from the i-th on: a matching
\* link's name is appended, then the loop ends if len(names) >= limit.
RECURSIVE SearchLoop(_, _, _, _)
SearchLoop(anchors, i, limit, names) ==
    IF i > Len(anchors) THEN names
    ELSE LET appended == IF anchors[i].match THEN Append(names, anchors[i].name) ELSE names
         IN  IF Len(appended) >= limit THEN appended
             ELSE SearchLoop(anchors, i + 1, limit, appended)
\* PyPIClient.search(query, limit) on a page that was fetched.
client_search(page, limit) == SearchLoop(page.anchors, 1, limit, <<>>)

\* models.PackageSearchResult (name and version), and the dict the tool builds
\* from a PackageInfo.
PackageSearchResult(name, version) == [name |-> name, version |-> version]

\* PackageManager.search_packages: the names found, each enriched by
\* get_project(name); a name whose fetch fails is left out.
RECURSIVE Enrich(_, _, _, _)
Enrich(names, i, projects, results) ==
    IF i > Len(names) THEN results
    ELSE Enrich(names, i + 1, projects,
                IF projects[names[i]].reachable
                THEN Append(results, PackageSearchResult(names[i],
                                         InfoVersion(projects[names[i]].releases)))
                ELSE results)
search_packages(page, limit, projects) == Enrich(client_search(page, limit), 1, projects, <<>>)

\* What a search_packages tool call ends with: its result list, the names found
\* by the registry search, and the names get_package_info was called with.
SearchOutcome(outcome, exc, results, names, lookups) ==
    [outcome |-> outcome, exc |-> exc, results |-> results, names |-> names,
     lookups |-> lookups]
NoSearch == SearchOutcome("", "", <<>>, <<>>, <<>>)

\* The tool without the try/except around the fallback lookup.
search_packages_tool_Unguarded(query, limit, page, projects, seen, fetched) ==
    IF ~page.ok THEN SearchOutcome("raised", "NetworkError", <<>>, <<>>, <<>>)
    ELSE LET names == client_search(page, limit)
             results == search_packages(page, limit, projects)
         IN  IF results = <<>> /\ NonBlank(query)
             THEN LET q == Strip(query)
                      meta == get_package_info(q.text, NoVersionSpec, seen, fetched,
                                               projects[q.text])
                  IN  IF meta.outcome = "returned"
                      THEN SearchOutcome("returned", "",
                              <<PackageSearchResult(meta.result.name, meta.result.version)>>,
                              names, <<q>>)
                      ELSE SearchOutcome("raised", meta.exc, <<>>, names, <<q>>)
             ELSE SearchOutcome("returned", "", results, names, <<>>)

\* server.search_packages: the manager's search, and when it gave nothing and
\* the query is not blank, one get_package_info(query.strip()) whose failure
\* is swallowed.
search_packages_tool(query, limit, page, projects, seen, fetched) ==
    IF ~page.ok THEN SearchOutcome("raised", "NetworkError", <<>>, <<>>, <<>>)
    ELSE LET names == client_search(page, limit)
             results == search_packages(page, limit, projects)
         IN  IF results = <<>> /\ NonBlank(query)
             THEN LET q == Strip(query)
                      meta == get_package_info(q.text, NoVersionSpec, seen, fetched,
                                               projects[q.text])
                  IN  IF meta.outcome = "returned"
                      THEN SearchOutcome("returned", "",
                              <<PackageSearchResult(meta.result.name, meta.result.version)>>,
                              names, <<q>>)
                      ELSE SearchOutcome("returned", "", <<>>, names, <<q>>)
             ELSE SearchOutcome("returned", "", results, names, <<>>)

\* The search_packages tool call of the run.
SearchPackages ==
    /\ ~sr.done
    /\ sr' = [sr EXCEPT !.done = TRUE,
                        !.call = search_packages_tool(sr.query, sr.limit, sr.page,
                                                      sr.projects, sr.local, sr.fetched)]
    /\ UNCHANGED <<pr, gd, fs, edits, cache, prev, last, th, cv, installed, registry, pk, cc, lv>>

\* ------------------------------------------------------------ parser calls
\* One DependencyParser call on a manifest file: the file's name and content,
\* and what the parser returned or raised.
ParserInput(kind, content) ==
    [kind |-> kind, file |-> File(content, 0), done |-> FALSE, result |-> Parsed(<<>>)]
NoParserInput ==
    [kind |-> "", file |-> Absent, done |-> FALSE, result |-> Parsed(<<>>)]

ParseRequirementsTxt ==
    /\ pr.kind = "requirements.txt" /\ ~pr.done
    /\ pr' = [pr EXCEPT !.done = TRUE,
                        !.result = parse_requirements_txt(pr.file, PathOf("A", pr.kind))]
    /\ UNCHANGED <<fs, edits, cache, prev, last, th, cv, installed, registry, pk, cc, sr, lv, gd>>

ParsePyprojectToml ==
    /\ pr.kind = "pyproject.toml" /\ ~pr.done
    /\ pr' = [pr EXCEPT !.done = TRUE,
                        !.result = parse_pyproject_toml(pr.file, PathOf("A", pr.kind))]
    /\ UNCHANGED <<fs, edits, cache, prev, last, th, cv, installed, registry, pk, cc, sr, lv, gd>>

ParsePipfile ==
    /\ pr.kind = "Pipfile" /\ ~pr.done
    /\ pr' = [pr EXCEPT !.done = TRUE,
                        !.result = parse_pipfile(pr.file, PathOf("A", pr.kind))]
    /\ UNCHANGED <<fs, edits, cache, prev, last, th, cv, installed, registry, pk, cc, sr, lv, gd>>

\* ========================================================= specifications
NoFiles == [d \in Dirs |-> [n \in FileNames |-> Absent]]
\* A project directory as the program may find it: each manifest absent, or
\* present with any of its contents, written before the program started.
InitialProjects ==
    {F \in [FileNames -> {Absent} \cup {File(c, 0) : c \in UNION {ContentsOf(n) : n \in FileNames}}] :
        \A n \in FileNames : F[n].exists => F[n].content \in ContentsOf(n)}

AnalyzerIdle ==
    /\ edits = 0
    /\ gd = NoGet
    /\ cache = EmptyCache
    /\ prev = [d \in Dirs |-> NoCall]
    /\ last = NoCall
ThreadsIdle == th = [t \in Threads |-> IdleFrame]
NoChoice == [releases |-> [k \in {} |-> <<>>], spec |-> NoSpec, done |-> FALSE, result |-> EmptyStr]
NoProject == Project(FALSE, [k \in {} |-> <<>>], FALSE)
\* No check_compatibility, search or get_latest_version call in the run.
NoCompatInput ==
    [existing |-> <<>>, new_name |-> "", new_spec |-> NoVersionSpec,
     projects |-> [n \in {} |-> NoProject], done |-> FALSE, call |-> NoCompatCall]
NoSearchInput ==
    [query |-> Query("", FALSE), limit |-> 0, page |-> Page(FALSE, <<>>),
     projects |-> [n \in {} |-> NoProject], local |-> NotInstalled,
     fetched |-> NotInstalled, done |-> FALSE, call |-> NoSearch]
NoLatestInput ==
    [name |-> "", project |-> LatestProject(FALSE, [k \in {} |-> <<>>], EmptyStr),
     allow_prerelease |-> FALSE, done |-> FALSE, call |-> NoLatest]
ToolsIdle ==
    cc = NoCompatInput /\ sr = NoSearchInput /\ lv = NoLatestInput /\ pr = NoParserInput
ResolverIdle ==
    /\ cv = NoChoice
    /\ installed = [p \in Packages |-> NotInstalled]
    /\ registry = [p \in Packages |-> NoProject]
    /\ pk = NoCall
ManagerIdle == ResolverIdle /\ ToolsIdle

\* --- Spec: one caller uses the analyzer on directory "A" while the
\* environment edits its manifests between the calls.
Init ==
    /\ \E F \in InitialProjects : fs = [NoFiles EXCEPT !["A"] = F]
    /\ AnalyzerIdle /\ ThreadsIdle /\ ManagerIdle
Next ==
    \/ AnalyzeProject("A")
    \/ \E n \in FileNames : WriteFile("A", n)
    \/ \E n \in FileNames : RemoveFile("A", n)
Spec == Init /\ [][Next]_vars

\* --- SpecConc: two callers run analyze_project("A") step by step, interleaved
\* with each other and with the environment's edits.
\* The directory starts with any subset of the four manifests, each well formed.
WellFormed(n) ==
    CASE n = "requirements.txt" -> GoodRequirements
      [] n = "pyproject.toml" -> GoodPyproject
      [] n = "Pipfile" -> GoodPipfile
      [] n = "setup.py" -> GoodSetupPy
InitConc ==
    /\ \E S \in SUBSET FileNames :
          fs = [NoFiles EXCEPT !["A"] =
                  [n \in FileNames |-> IF n \in S THEN File(WellFormed(n), 0) ELSE Absent]]
    /\ AnalyzerIdle /\ ThreadsIdle /\ ManagerIdle
NextConc ==
    \/ \E t \in Threads : Call(t, "A")
    \/ \E t \in Threads : ScanStep(t)
    \/ \E t \in Threads : MtimeStep(t)
    \/ \E t \in Threads : ParseStep(t)
    \/ \E t \in Threads : Publish(t)
    \/ \E t \in Threads : Return(t)
    \/ \E t \in Threads : Finish(t)
    \/ \E n \in FileNames : WriteFile("A", n)
    \/ \E n \in FileNames : RemoveFile("A", n)
SpecConc == InitConc /\ [][NextConc]_vars

\* --- SpecDirs: one caller uses the analyzer on the directories "A" and "B"
\* while the environment edits their manifests between the calls; the run
\* ends with a get_dependencies call.
DirProjects ==
    {NoFiles["A"],
     [NoFiles["A"] EXCEPT !["requirements.txt"] = File(GoodRequirements, 0)],
     [NoFiles["A"] EXCEPT !["requirements.txt"] = File(Requirements(<<Line(ReqA)>>), 0),
                          !["pyproject.toml"] = File(GoodPyproject, 0)],
     [NoFiles["A"] EXCEPT !["pyproject.toml"] =
         File(Pyproject(TRUE, <<ReqA, ReqBad>>, <<Group("test", <<ReqC>>)>>), 0)],
     [NoFiles["A"] EXCEPT !["setup.py"] = File(GoodSetupPy, 0)]}
\* The manifest the environment edits in these runs.
EditedNames == {"requirements.txt"}
InitDirs ==
    /\ fs \in [Dirs -> DirProjects]
    /\ AnalyzerIdle /\ ThreadsIdle /\ ManagerIdle
NextDirs ==
    \/ \E d \in Dirs : ~gd.called /\ AnalyzeProject(d)
    \/ \E d \in Dirs, n \in EditedNames : ~gd.called /\ WriteFile(d, n)
    \/ \E d \in Dirs, n \in EditedNames : ~gd.called /\ RemoveFile(d, n)
    \/ GetDependencies
SpecDirs == InitDirs /\ [][NextDirs]_vars

\* --- SpecFresh: as SpecDirs, in an environment where every write of a
\* manifest gives it a new modification time.
NextFresh ==
    \/ \E d \in Dirs : ~gd.called /\ AnalyzeProject(d)
    \/ \E d \in Dirs, n \in EditedNames : ~gd.called /\ WriteFileFresh(d, n)
    \/ \E d \in Dirs, n \in EditedNames : ~gd.called /\ RemoveFile(d, n)
    \/ GetDependencies
SpecFresh == InitDirs /\ [][NextFresh]_vars

\* --- SpecResolver: _choose_version applied to every release map of at most
\* MaxKeys keys and every constraint below.
KeySets == {K \in SUBSET VersionKeys : Cardinality(K) <= MaxKeys}
ReleaseMaps == UNION {[K -> FileLists] : K \in KeySets}
Clauses == {Clause(op, v) : op \in {">=", "<", "=="}, v \in Versions}
ResolverSpecs ==
    {NoSpec, SpecifierSet({})}
    \cup {SpecifierSet({c}) : c \in Clauses}
    \cup {SpecifierSet({Clause(">=", a), Clause("<", b)}) : a \in Versions, b \in Versions}
InitResolver ==
    /\ fs = NoFiles /\ AnalyzerIdle /\ ThreadsIdle
    /\ \E r \in ReleaseMaps, s \in ResolverSpecs :
          cv = [releases |-> r, spec |-> s, done |-> FALSE, result |-> EmptyStr]
    /\ installed = [p \in Packages |-> NotInstalled]
    /\ registry = [p \in Packages |-> NoProject]
    /\ pk = NoCall
    /\ ToolsIdle
NextResolver == ChooseVersion
SpecResolver == InitResolver /\ [][NextResolver]_vars

\* --- SpecPkg: get_package_info against every local environment and registry
\* answer below.
LocalStates ==
    {NotInstalled, Installed(NotAVersion)} \cup {Installed(StrVersion(v)) : v \in Versions}
\* The keys of the registry's release maps: every canonical key, the two
\* lowest versions also in non-canonical form, and a key that is no version.
RegistryKeys == {k \in VersionKeys : k.form = "alt" => k.v <= 2}
RegistryMaps ==
    UNION {[K -> {<<>>, <<RelFile(FALSE)>>, <<RelFile(TRUE)>>}] :
             K \in {X \in SUBSET RegistryKeys : Cardinality(X) <= MaxRegKeys}}
Projects ==
    {NoProject} \cup {Project(TRUE, r, ok) : r \in RegistryMaps, ok \in BOOLEAN}
InitPkg ==
    /\ fs = NoFiles /\ AnalyzerIdle /\ ThreadsIdle
    /\ cv = NoChoice
    /\ installed \in [Packages -> LocalStates]
    /\ registry \in [Packages -> Projects]
    /\ pk = NoCall
    /\ ToolsIdle
NextPkg == \E p \in Packages : GetPackageInfo(p)
SpecPkg == InitPkg /\ [][NextPkg]_vars

\* --- SpecCompat: check_compatibility on every list of at most MaxDeps
\* existing dependencies, every candidate and every registry answer below.
CompatNames == {"requests", "httpx"}
\* Constraint texts as manifests and callers write them: none, ">=2.0", and
\* ">=1.0,<2.0" (which str(SpecifierSet) prints as "<2.0,>=1.0").
CompatTexts ==
    {EmptyText, SpecText(<<Clause(">=", 4)>>), SpecText(<<Clause(">=", 2), Clause("<", 4)>>)}
\* The dependencies analyze_project may hand over: declared requirements and
\* the parse-error sentinel.
SentinelDep ==
    ParseErrorDep(Raised("ParsingError", "Failed to parse setup.py"), PathOf("A", "setup.py"))
CompatDeps ==
    {Dependency(n, t, <<>>, PathOf("A", "requirements.txt"), FALSE) :
        n \in CompatNames, t \in CompatTexts}
    \cup {SentinelDep}
ExistingLists == UNION {[1..n -> CompatDeps] : n \in 0..MaxDeps}
\* Release maps of final releases with canonical keys, and one whose only key
\* is no version.
CompatMaps ==
    UNION {[K -> {<<RelFile(FALSE)>>, <<RelFile(TRUE)>>}] :
             K \in SUBSET {StrVersion(v) : v \in {x \in Versions : ~IsPrerelease(x) /\ x <= 4}}}
    \cup {[k \in {NotAVersion} |-> <<RelFile(FALSE)>>]}
CompatProjects == {NoProject} \cup {Project(TRUE, r, TRUE) : r \in CompatMaps}
\* The registry has no project named like the sentinel.
CompatRegistries ==
    {[n \in CompatNames \cup {SentinelDep.name} |->
         IF n \in CompatNames THEN f[n] ELSE NoProject] : f \in [CompatNames -> CompatProjects]}
InitCompat ==
    /\ fs = NoFiles /\ AnalyzerIdle /\ ThreadsIdle /\ ResolverIdle
    /\ pr = NoParserInput
    /\ sr = NoSearchInput /\ lv = NoLatestInput
    /\ \E existing \in ExistingLists, new_name \in CompatNames,
          new_spec \in {NoVersionSpec} \cup {VersionSpec(t) : t \in CompatTexts \ {EmptyText}},
          projects \in CompatRegistries :
          cc = [existing |-> existing, new_name |-> new_name, new_spec |-> new_spec,
                projects |-> projects, done |-> FALSE, call |-> NoCompatCall]
NextCompat == CheckCompatibility
SpecCompat == InitCompat /\ [][NextCompat]_vars

\* --- SpecLatest: get_latest_version on every release map of at most MaxKeys
\* keys, every info version and both values of allow_prerelease.
InfoVersions == {EmptyStr, NotAVersion} \cup {StrVersion(v) : v \in Versions}
LatestProjects ==
    {LatestProject(FALSE, [k \in {} |-> <<>>], EmptyStr)}
    \cup {LatestProject(TRUE, r, iv) : r \in ReleaseMaps, iv \in InfoVersions}
InitLatest ==
    /\ fs = NoFiles /\ AnalyzerIdle /\ ThreadsIdle /\ ResolverIdle
    /\ pr = NoParserInput
    /\ cc = NoCompatInput /\ sr = NoSearchInput
    /\ \E project \in LatestProjects, allow \in BOOLEAN :
          lv = [name |-> "requests", project |-> project, allow_prerelease |-> allow,
                done |-> FALSE, call |-> NoLatest]
NextLatest == GetLatestVersion
SpecLatest == InitLatest /\ [][NextLatest]_vars

\* --- SpecSearch: the search_packages tool on every query, limit, result page
\* and registry answer below.
SearchNames == {"requests", "httpx"}
Queries == {Query(t, p) : t \in {"", "requests"}, p \in BOOLEAN}
Anchors == {Anchor(m, n) : m \in BOOLEAN, n \in SearchNames}
Pages ==
    {Page(FALSE, <<>>)}
    \cup {Page(TRUE, a) : a \in UNION {[1..n -> Anchors] : n \in 0..MaxAnchors}}
SearchProjects ==
    {NoProject}
    \cup {Project(TRUE, [k \in {StrVersion(4)} |-> <<RelFile(FALSE)>>], ok) : ok \in BOOLEAN}
InitSearch ==
    /\ fs = NoFiles /\ AnalyzerIdle /\ ThreadsIdle /\ ResolverIdle
    /\ pr = NoParserInput
    /\ cc = NoCompatInput /\ lv = NoLatestInput
    /\ \E query \in Queries, limit \in 0..MaxLimit, page \in Pages,
          projects \in [SearchNames -> SearchProjects],
          local \in {NotInstalled, Installed(StrVersion(2))} :
       \E fetched \in {local, NotInstalled} :
          sr = [query |-> query, limit |-> limit, page |-> page, projects |-> projects,
                local |-> local, fetched |-> fetched, done |-> FALSE, call |-> NoSearch]
NextSearch == SearchPackages
SpecSearch == InitSearch /\ [][NextSearch]_vars

\* --- SpecParsers: each manifest parser on every manifest below.
SeqsUpTo(S, n) == UNION {[1..k -> S] : k \in 0..n}
ParserLines == {Blank, Comment, Line(ReqA), Line(ReqB), Line(ReqC), Line(ReqBad)}
ParserRequirements == {Requirements(l) : l \in SeqsUpTo(ParserLines, MaxLines)}
\* The keys of a TOML table are distinct.
DistinctBy(seq, key(_)) == \A i, j \in DOMAIN seq : key(seq[i]) = key(seq[j]) => i = j
GroupNames == {"dev", "Dev", "TEST", "docs", "extra"}
GroupEntries == {<<>>, <<ReqC>>, <<ReqB, ReqC>>, <<ReqBad>>}
ParserGroups ==
    {g \in SeqsUpTo({Group(n, e) : n \in GroupNames, e \in GroupEntries}, MaxGroups) :
        DistinctBy(g, LAMBDA x : x.group)}
ParserPyprojects ==
    {Pyproject(FALSE, <<>>, <<>>)}
    \cup {Pyproject(TRUE, d, g) :
            d \in {<<>>, <<ReqA>>, <<ReqA, ReqB>>, <<ReqA, ReqBad>>}, g \in ParserGroups}
PipValues ==
    {PipStr(TRUE, TRUE, <<>>), PipStr(FALSE, TRUE, <<Clause(">=", 2)>>),
     PipStr(FALSE, FALSE, <<>>), PipDict(TRUE, <<Clause("==", 4)>>)}
PipEntries ==
    {PipEntry(n, TRUE, v) : n \in {"requests", "pytest"}, v \in PipValues}
    \cup {PipEntry("bad name", FALSE, v) : v \in PipValues}
PipSections ==
    {e \in SeqsUpTo(PipEntries, MaxPipEntries) : DistinctBy(e, LAMBDA x : x.name)}
DevPipSections == {e \in PipSections : Len(e) <= 1}
ParserPipfiles ==
    {Pipfile(FALSE, <<>>, <<>>)}
    \cup {Pipfile(TRUE, p, d) : p \in PipSections, d \in DevPipSections}
InitParsers ==
    /\ fs = NoFiles /\ AnalyzerIdle /\ ThreadsIdle /\ ResolverIdle
    /\ cc = NoCompatInput /\ sr = NoSearchInput /\ lv = NoLatestInput
    /\ pr \in {ParserInput("requirements.txt", c) : c \in ParserRequirements}
            \cup {ParserInput("pyproject.toml", c) : c \in ParserPyprojects}
            \cup {ParserInput("Pipfile", c) : c \in ParserPipfiles}
NextParsers == ParseRequirementsTxt \/ ParsePyprojectToml \/ ParsePipfile
SpecParsers == InitParsers /\ [][NextParsers]_vars

\* ================================================================= claims
\* The first call of the pair a claim speaks of returned, and the second one
\* (the last call) ran on the same directory.
SecondCall == last.called /\ last.before.called
MetaUnchanged == last.before.meta = last.meta
IsParseError(dep) == dep.name = "__parse_error__"
RequirementsPath(d) == PathOf(d, "requirements.txt")
MtimesOfMeta(d, meta, files) == [p \in Range(files) |-> meta[p[2]].mtime]

\* C1: cache hit. When analyze_project is called again on a directory whose
\* set of existing manifests and whose modification times are what they were
\* at the previous call (which returned a list), the call invokes no parser
\* and returns the same dependency list as the previous call.
C1_CacheHit ==
    (SecondCall /\ last.before.outcome = "returned" /\ MetaUnchanged)
    => /\ last.outcome = "returned"
       /\ last.parsed = <<>>
       /\ last.dependencies = last.before.dependencies

\* A cache hit that returns a cached parse-error sentinel again.
C1_Witness ==
    /\ SecondCall /\ last.before.outcome = "returned" /\ MetaUnchanged
    /\ ~last.refreshed
    /\ \E i \in DOMAIN last.dependencies : IsParseError(last.dependencies[i])

\* C2: cache invalidation. If between two analyze_project calls on a
\* directory a manifest's modification time changes, or a manifest is added
\* or removed, the second call re-parses every manifest present and replaces
\* the directory's cache entry by the new file list, mtimes and dependencies.
C2_Invalidation ==
    (SecondCall /\ ~MetaUnchanged)
    => /\ last.parsed = last.dependency_files
       /\ InCache(cache, last.dir)
       /\ cache.map[last.dir] =
            CacheEntry(MtimesOfMeta(last.dir, last.meta, last.dependency_files),
                       last.dependencies, last.dependency_files)

\* C2 where both calls returned: the same statement, for the runs in which no
\* parser raises past analyze_project.
C2_InvalidationWhenReturned ==
    (SecondCall /\ ~MetaUnchanged
       /\ last.outcome = "returned" /\ last.before.outcome = "returned")
    => /\ last.parsed = last.dependency_files
       /\ InCache(cache, last.dir)
       /\ cache.map[last.dir] =
            CacheEntry(MtimesOfMeta(last.dir, last.meta, last.dependency_files),
                       last.dependencies, last.dependency_files)

\* C3: under any interleaving of analyze_project calls on one directory,
\* every call that returns, returns the dependency list it computed itself
\* (or found valid in the cache) for the files it reports.
C3_SelfConsistent ==
    \A t \in Threads :
       (th[t].pc = "done" /\ th[t].outcome = "returned") => th[t].result = th[t].own

\* C4: analyze_project never fails because of the content of one manifest:
\* whatever the parsers do, the call returns, and a refresh invokes the parser
\* of every file found.
C4_NeverRaises ==
    last.called
    => /\ last.outcome = "returned"
       /\ last.refreshed => last.parsed = last.dependency_files

\* What one file contributes to a refreshed result when the call goes on past
\* it: its dependencies, or one sentinel carrying the error text.
Contribution(F, f) ==
    LET r == ParseFile(F, f) IN
    IF r.status = "ok" THEN r.deps
    ELSE IF r.status \in Caught THEN <<ParseErrorDep(r, f)>>
    ELSE <<>>
HasMalformedLine(file) ==
    \E i \in DOMAIN file.content.lines :
       /\ file.content.lines[i].kind = "req"
       /\ ~file.content.lines[i].text.valid
\* The last call parsed the directory as it is now, and requirements.txt
\* holds a malformed line.
MalformedCase ==
    /\ last.called /\ last.refreshed /\ last.at = edits
    /\ fs[last.dir]["requirements.txt"].exists
    /\ HasMalformedLine(fs[last.dir]["requirements.txt"])

\* C5: when requirements.txt holds a malformed line, analyze_project records
\* for it exactly one sentinel (name __parse_error__, constraint field the
\* error text, source the file) and nothing from its valid lines, and the
\* other manifests found are parsed and contribute in scan order.
C5_MalformedLine ==
    MalformedCase
    => /\ last.outcome = "returned"
       /\ last.parsed = last.dependency_files
       /\ Contribution(fs, RequirementsPath(last.dir)) =
            <<Dependency("__parse_error__", MsgText("Invalid requirement line"), <<>>,
                         RequirementsPath(last.dir), FALSE)>>
       /\ last.dependencies =
            Concat([i \in DOMAIN last.dependency_files |->
                      Contribution(fs, last.dependency_files[i])])

\* C5 for the calls that return.
C5_MalformedLineWhenReturned ==
    (MalformedCase /\ last.outcome = "returned")
    => /\ last.parsed = last.dependency_files
       /\ last.dependencies =
            Concat([i \in DOMAIN last.dependency_files |->
                      Contribution(fs, last.dependency_files[i])])

\* The positions of the sentinels recorded for file f.
SentinelsFor(deps, f) ==
    {i \in DOMAIN deps : IsParseError(deps[i]) /\ deps[i].source_file = f}

\* C6: a call that finds a scanned manifest gone when it comes to read it
\* (at the modification-time read or in the parser) does not raise, and its
\* dependency list holds exactly one sentinel for that file.
C6_VanishedFile ==
    \A t \in Threads :
       (th[t].pc = "done" /\ th[t].vanished # {})
       => /\ th[t].outcome = "returned"
          /\ \A f \in th[t].vanished : Cardinality(SentinelsFor(th[t].own, f)) = 1

\* C6 for a manifest that vanishes after its modification time was read: the
\* parser's error is caught and becomes one sentinel.
C6_VanishedBeforeParse ==
    \A t \in Threads :
       (th[t].pc = "done" /\ th[t].vanished # {} /\ th[t].exc # "FileNotFoundError"
          /\ th[t].outcome = "returned")
       => \A f \in th[t].vanished : Cardinality(SentinelsFor(th[t].own, f)) = 1

\* A version satisfies the constraint: no constraint given (None, or the empty
\* set), or the version is in it.
Satisfies(spec, v) == SpecTruthy(spec) => Contains(spec.clauses, v)
\* The keys of the release map that parse, satisfy the constraint and hold a
\* release file that is not withdrawn.
Candidates(releases, spec) ==
    {k \in DOMAIN releases :
        VersionOk(k) /\ Satisfies(spec, VersionOf(k)) /\ AnyNotYanked(releases[k])}
Highest(S) == CHOOSE x \in S : \A y \in S : y <= x
CanonicalKeys(releases) == \A k \in DOMAIN releases : k.form # "alt"

\* C7: selection. If some parseable version satisfies the constraint (or none
\* is given) and has a release file that is not withdrawn, _choose_version
\* returns the greatest such version.
C7_Selection ==
    (cv.done /\ Candidates(cv.releases, cv.spec) # {})
    => /\ VersionOk(cv.result)
       /\ VersionOf(cv.result) =
            Highest({VersionOf(k) : k \in Candidates(cv.releases, cv.spec)})

\* C7 for release maps whose every key is what str(Version(key)) prints.
C7_SelectionCanonicalKeys ==
    (cv.done /\ CanonicalKeys(cv.releases) /\ Candidates(cv.releases, cv.spec) # {})
    => /\ VersionOk(cv.result)
       /\ VersionOf(cv.result) =
            Highest({VersionOf(k) : k \in Candidates(cv.releases, cv.spec)})

\* C8: fallback. When no parseable version both satisfies the constraint and
\* has a release file that is not withdrawn, _choose_version returns the
\* highest parseable version, whatever the constraint and its files; and it
\* returns the empty string exactly when no key parses as a version.
C8_Fallback ==
    cv.done
    => /\ (Candidates(cv.releases, cv.spec) = {} /\ ParsedVersions(cv.releases) # {})
          => cv.result = StrVersion(Highest(ParsedVersions(cv.releases)))
       /\ cv.result = EmptyStr <=> ParsedVersions(cv.releases) = {}

\* The fallback returned a version that is outside the constraint and whose
\* files are all withdrawn.
C8_Witness ==
    /\ cv.done /\ Candidates(cv.releases, cv.spec) = {}
    /\ ParsedVersions(cv.releases) # {}
    /\ SpecTruthy(cv.spec)
    /\ ~Contains(cv.spec.clauses, Highest(ParsedVersions(cv.releases)))
    /\ cv.result = StrVersion(Highest(ParsedVersions(cv.releases)))
    /\ cv.result \in DOMAIN cv.releases
    /\ cv.releases[cv.result] = <<RelFile(TRUE)>>

\* The keys that parse and satisfy the constraint, and the highest version
\* among them.
SatisfyingKeys(releases, spec) ==
    {k \in DOMAIN releases : VersionOk(k) /\ Satisfies(spec, VersionOf(k))}
HighestSatisfying(releases, spec) ==
    Highest({VersionOf(k) : k \in SatisfyingKeys(releases, spec)})

\* C9: a version with an empty release-file list is acceptable. If the
\* highest version satisfying the constraint has an empty file list,
\* _choose_version returns that version, not a lower one.
C9_EmptyFileList ==
    (/\ cv.done
     /\ SatisfyingKeys(cv.releases, cv.spec) # {}
     /\ \A k \in SatisfyingKeys(cv.releases, cv.spec) :
           VersionOf(k) = HighestSatisfying(cv.releases, cv.spec) => cv.releases[k] = <<>>)
    => /\ VersionOk(cv.result)
       /\ VersionOf(cv.result) = HighestSatisfying(cv.releases, cv.spec)

\* C10: local-first. When the package is installed and get_package_info is
\* called without a constraint (None or the empty string), the call sends no
\* request to the registry, and it returns the local record that
\* get_local_package_info gave it.
C10_LocalFirst ==
    (pk.called /\ pk.installed /\ ~VersionSpecTruthy(pk.version_spec))
    => /\ pk.call.requests = <<>>
       /\ pk.fetched.present
          => /\ pk.call.outcome = "returned"
             /\ pk.call.result = PackageInfo(pk.name, pk.fetched.version, "local")

\* A local answer given while the registry was reachable and had releases.
C10_Witness ==
    /\ pk.called /\ pk.installed /\ ~VersionSpecTruthy(pk.version_spec)
    /\ pk.fetched.present
    /\ registry[pk.name].reachable
    /\ DOMAIN registry[pk.name].releases # {}
    /\ pk.call.outcome = "returned"
    /\ pk.call.result.origin = "local"
    /\ pk.call.requests = <<>>

\* The local constraint test of get_package_info: the installed version
\* parses, the constraint parses, and the version is in it.
LocalSatisfies(vs, local) ==
    /\ VersionOk(local.version)
    /\ SpecifierOk(vs.text)
    /\ Contains(SpecifierOf(vs.text).clauses, VersionOf(local.version))
\* A call on an installed package whose local record was fetched, with a
\* constraint.
LocalWithConstraint ==
    pk.called /\ pk.installed /\ pk.fetched.present /\ VersionSpecTruthy(pk.version_spec)

\* C11: installed package, constraint given. If the local version parses and
\* satisfies the constraint the local record is returned and no registry
\* request is made; if the version or the constraint does not parse, or the
\* version does not satisfy it, nothing is raised there and the call goes on
\* with the registry path (its first request, get_project, is sent).
C11_LocalWithConstraint ==
    LocalWithConstraint
    => IF LocalSatisfies(pk.version_spec, pk.fetched)
       THEN /\ pk.call.outcome = "returned"
            /\ pk.call.result = PackageInfo(pk.name, pk.fetched.version, "local")
            /\ pk.call.requests = <<>>
       ELSE /\ pk.call.requests # <<>>
            /\ pk.call.requests[1] = Request("get_project", pk.name, EmptyStr)
            /\ pk.call = RegistryPath(pk.name, pk.version_spec, registry[pk.name])

\* A local version that does not parse: the registry answered instead.
C11_Witness ==
    /\ LocalWithConstraint
    /\ ~VersionOk(pk.fetched.version)
    /\ pk.call.outcome = "returned"
    /\ pk.call.result.origin = "pypi"
    /\ Len(pk.call.requests) = 2

\* C12: a failing local lookup never propagates. When the package is reported
\* installed and fetching its local metadata then fails, the call behaves as
\* if the package were not installed: it takes the registry path.
C12_LocalFailure ==
    (pk.called /\ pk.installed /\ ~pk.fetched.present)
    => pk.call = RegistryPath(pk.name, pk.version_spec, registry[pk.name])

\* The positions of the requests of one kind in a request sequence.
RequestsOf(rq, kind) == {i \in DOMAIN rq : rq[i].kind = kind}
\* The version the resolver chooses for a constraint argument.
ChosenFor(vs, releases) ==
    choose_version(releases, IF VersionSpecTruthy(vs) THEN SpecifierOf(vs.text) ELSE NoSpec)

\* C13: no retry. One call sends get_project at most once and get_release at
\* most once; get_release only after get_project succeeded and only for the
\* version the resolver chose; a failed request ends the call with
\* NetworkError and is the last request of the call.
C13_NoRetry ==
    pk.called
    => LET rq == pk.call.requests
           project == registry[pk.name]
       IN  /\ Cardinality(RequestsOf(rq, "get_project")) <= 1
           /\ Cardinality(RequestsOf(rq, "get_release")) <= 1
           /\ \A i \in RequestsOf(rq, "get_release") :
                 /\ i = 2 /\ rq[1].kind = "get_project"
                 /\ project.reachable
                 /\ rq[i].version = ChosenFor(pk.version_spec, project.releases)
           /\ (rq # <<>> /\ ~project.reachable)
              => /\ pk.call.outcome = "raised" /\ pk.call.exc = "NetworkError"
                 /\ Len(rq) = 1
           /\ (RequestsOf(rq, "get_release") # {} /\ ~project.release_ok)
              => /\ pk.call.outcome = "raised" /\ pk.call.exc = "NetworkError"
                 /\ Len(rq) = 2

\* A get_release request that failed after get_project succeeded.
C13_Witness ==
    /\ pk.called
    /\ registry[pk.name].reachable /\ ~registry[pk.name].release_ok
    /\ Len(pk.call.requests) = 2
    /\ pk.call.requests[2].kind = "get_release"
    /\ pk.call.exc = "NetworkError"

\* A release-file list that is not fully withdrawn: not every file of it is.
NotFullyWithdrawn(files) == files = <<>> \/ AnyNotYanked(files)
\* A call with a constraint that parses, which returned.
ReturnedWithConstraint ==
    /\ pk.called /\ pk.call.outcome = "returned"
    /\ VersionSpecTruthy(pk.version_spec) /\ SpecifierOk(pk.version_spec.text)
ConstraintClauses == SpecifierOf(pk.version_spec.text).clauses
\* The installed version satisfies the constraint.
LocalPossible ==
    /\ pk.installed /\ pk.fetched.present
    /\ LocalSatisfies(pk.version_spec, pk.fetched)
ReturnedVersionSatisfies ==
    /\ VersionOk(pk.call.result.version)
    /\ Contains(ConstraintClauses, VersionOf(pk.call.result.version))

\* C14: a call with a constraint that returns, returns a version satisfying
\* the constraint whenever the installed version satisfies it or the release
\* map holds a parseable version that satisfies it and is not fully withdrawn.
C14_SatisfiesWhenPossible ==
    (/\ ReturnedWithConstraint
     /\ \/ LocalPossible
        \/ \E k \in DOMAIN registry[pk.name].releases :
              /\ VersionOk(k) /\ Contains(ConstraintClauses, VersionOf(k))
              /\ NotFullyWithdrawn(registry[pk.name].releases[k]))
    => ReturnedVersionSatisfies

\* C14 for release maps with canonical keys, where the satisfying version
\* holds a file that is not withdrawn.
C14_SatisfiesCanonicalNonEmpty ==
    (/\ ReturnedWithConstraint
     /\ CanonicalKeys(registry[pk.name].releases)
     /\ \/ LocalPossible
        \/ \E k \in DOMAIN registry[pk.name].releases :
              /\ VersionOk(k) /\ Contains(ConstraintClauses, VersionOf(k))
              /\ AnyNotYanked(registry[pk.name].releases[k]))
    => ReturnedVersionSatisfies

\* The names check_compatibility is asked about, and the constraint texts
\* recorded for a name: those of the existing dependencies of that name and,
\* for the candidate's name, the candidate's.
CompatInputNames == {cc.existing[i].name : i \in DOMAIN cc.existing} \cup {cc.new_name}
RecordedTexts(name) ==
    {cc.existing[i].version_spec : i \in {j \in DOMAIN cc.existing : cc.existing[j].name = name}}
    \cup (IF cc.new_name = name THEN {CandidateText(cc.new_spec)} ELSE {})
\* Version v satisfies a recorded constraint text: the empty constraint always.
TextSatisfied(t, v) ==
    ~TextTruthy(t) \/ (SpecifierOk(t) /\ Contains(Range(t.clauses), v))
SatisfiesAll(name, v) == \A t \in RecordedTexts(name) : TextSatisfied(t, v)
ConflictsFor(name) == {i \in DOMAIN cc.call.conflicts : cc.call.conflicts[i].package = name}
\* The call requested the project of the name and the request succeeded.
FetchSucceeded(name) == name \in Range(cc.call.fetched) /\ cc.projects[name].reachable
FetchFailed(name) == name \in Range(cc.call.fetched) /\ ~cc.projects[name].reachable

\* C15: for each name among the existing dependencies and the candidate, the
\* call emits exactly one conflict record if the fetch of the name succeeded,
\* some release key parses and no parsed version satisfies every constraint
\* recorded for the name, and no conflict record for the name otherwise.
C15_ConflictIff ==
    cc.done
    => \A name \in CompatInputNames :
          Cardinality(ConflictsFor(name)) =
             IF /\ FetchSucceeded(name)
                /\ ParsedVersions(cc.projects[name].releases) # {}
                /\ ~\E v \in ParsedVersions(cc.projects[name].releases) : SatisfiesAll(name, v)
             THEN 1 ELSE 0

\* One name in conflict under two recorded constraints, another name fetched
\* with versions and without conflict.
C15_Witness ==
    /\ cc.done
    /\ \E a \in CompatInputNames, b \in CompatInputNames :
          /\ a # b
          /\ Cardinality(ConflictsFor(a)) = 1
          /\ Cardinality({i \in DOMAIN cc.existing : cc.existing[i].name = a}) >= 1
          /\ cc.new_name = a
          /\ FetchSucceeded(b)
          /\ ParsedVersions(cc.projects[b].releases) # {}
          /\ ConflictsFor(b) = {}

\* C16: a failed registry fetch for one name is swallowed. When the fetch of a
\* name fails, the call still returns, reports no conflict for that name, and
\* has requested every name it was asked about exactly once.
C16_FetchFailureSwallowed ==
    (cc.done /\ \E name \in CompatInputNames : FetchFailed(name))
    => /\ cc.call.outcome = "returned"
       /\ \A name \in CompatInputNames : FetchFailed(name) => ConflictsFor(name) = {}
       /\ Range(cc.call.fetched) = CompatInputNames
       /\ Len(cc.call.fetched) = Cardinality(CompatInputNames)

\* The first name's fetch failed and a later name was found in conflict.
C16_Witness ==
    /\ cc.done /\ Len(cc.call.fetched) = 2
    /\ FetchFailed(cc.call.fetched[1])
    /\ FetchSucceeded(cc.call.fetched[2])
    /\ Cardinality(ConflictsFor(cc.call.fetched[2])) = 1

\* The parseable keys of a name's release map whose version satisfies every
\* constraint recorded for the name.
SatisfyingReleases(name) ==
    {k \in DOMAIN cc.projects[name].releases : VersionOk(k) /\ SatisfiesAll(name, VersionOf(k))}
FullyWithdrawn(files) == files # <<>> /\ ~AnyNotYanked(files)

\* C17: only versions that are not fully withdrawn count. If every version
\* satisfying all constraints recorded for a name has all its release files
\* withdrawn, and other versions exist, a conflict is reported for the name.
C17_WithdrawnNotCounted ==
    (cc.done /\ cc.call.outcome = "returned")
    => \A name \in CompatInputNames :
          (/\ FetchSucceeded(name)
           /\ SatisfyingReleases(name) # {}
           /\ \A k \in SatisfyingReleases(name) :
                 FullyWithdrawn(cc.projects[name].releases[k])
           /\ \E k \in DOMAIN cc.projects[name].releases :
                 VersionOk(k) /\ k \notin SatisfyingReleases(name))
          => Cardinality(ConflictsFor(name)) = 1

\* C18: the constraints list of a conflict record holds each distinct
\* constraint text recorded for the package exactly once, as it was given.
C18_ConstraintsAsGiven ==
    cc.done
    => \A i \in DOMAIN cc.call.conflicts :
          LET c == cc.call.conflicts[i] IN
          /\ Range(c.constraints) = RecordedTexts(c.package)
          /\ Len(c.constraints) = Cardinality(RecordedTexts(c.package))

\* The list PackageManager.search_packages hands to the tool, and the result
\* of the exact-name lookup with the trimmed query.
ManagerResults == search_packages(sr.page, sr.limit, sr.projects)
RegistryNames == client_search(sr.page, sr.limit)
Lookup ==
    get_package_info(Strip(sr.query).text, NoVersionSpec, sr.local, sr.fetched,
                     sr.projects[Strip(sr.query).text])
FallbackResults ==
    IF Lookup.outcome = "returned"
    THEN <<PackageSearchResult(Lookup.result.name, Lookup.result.version)>>
    ELSE <<>>

\* C19: the search_packages tool decides the fallback on the result list of
\* the package manager's search (the names found, less those whose metadata
\* fetch failed). With an empty list and a non-blank query there is exactly one
\* lookup, with the trimmed query, and the tool returns its single result or
\* the empty list; with a non-empty list or a blank query there is no lookup
\* and the list is returned; a failed search request propagates as
\* NetworkError.
C19_FallbackOnEmptyResults ==
    sr.done
    => /\ ~sr.page.ok
          => /\ sr.call.outcome = "raised" /\ sr.call.exc = "NetworkError"
             /\ sr.call.lookups = <<>>
       /\ (sr.page.ok /\ ManagerResults = <<>> /\ NonBlank(sr.query))
          => /\ sr.call.outcome = "returned"
             /\ sr.call.lookups = <<Strip(sr.query)>>
             /\ sr.call.results = FallbackResults
       /\ (sr.page.ok /\ (ManagerResults # <<>> \/ ~NonBlank(sr.query)))
          => /\ sr.call.outcome = "returned"
             /\ sr.call.lookups = <<>>
             /\ sr.call.results = ManagerResults

\* A padded query, a search that found a name whose metadata fetch failed,
\* and a fallback lookup that raised: the tool returned the empty list.
C19_Witness ==
    /\ sr.done /\ sr.page.ok
    /\ sr.query.padded /\ NonBlank(sr.query)
    /\ RegistryNames # <<>> /\ ManagerResults = <<>>
    /\ sr.call.lookups = <<Strip(sr.query)>>
    /\ Lookup.outcome = "raised"
    /\ sr.call.outcome = "returned" /\ sr.call.results = <<>>

\* The versions get_latest_version may return from the release map: keys that
\* parse, are not fully withdrawn and, unless pre-releases are allowed, are no
\* pre-release.
Qualifying ==
    {VersionOf(k) : k \in
        {x \in DOMAIN lv.project.releases :
            /\ VersionOk(x)
            /\ NotFullyWithdrawn(lv.project.releases[x])
            /\ lv.allow_prerelease \/ ~IsPrerelease(VersionOf(x))}}

\* C20: get_latest_version returns the highest qualifying version; when none
\* qualifies it returns the project's info version; and is_prerelease is true
\* exactly when the returned version string is a pre-release.
C20_LatestVersion ==
    (lv.done /\ lv.project.reachable)
    => /\ lv.call.outcome = "returned"
       /\ Qualifying # {}
          => /\ VersionOk(lv.call.result.version)
             /\ VersionOf(lv.call.result.version) = Highest(Qualifying)
       /\ Qualifying = {} => lv.call.result.version = lv.project.info_version
       /\ lv.call.result.is_prerelease <=> IsPre(lv.call.result.version)

\* Every release is withdrawn and the info version, a pre-release, is returned
\* with its flag set.
C20_Witness ==
    /\ lv.done /\ lv.project.reachable
    /\ ParsedVersions(lv.project.releases) # {}
    /\ Qualifying = {}
    /\ lv.call.result.version = lv.project.info_version
    /\ lv.call.result.is_prerelease

\* C21: with allow_prerelease false, get_latest_version returns no pre-release:
\* for every release map and project info, the returned version is not a
\* pre-release and the returned is_prerelease flag is false.
C21_NoPrereleaseByDefault ==
    (lv.done /\ lv.project.reachable /\ ~lv.allow_prerelease)
    => /\ ~(VersionOk(lv.call.result.version)
            /\ IsPrerelease(VersionOf(lv.call.result.version)))
       /\ ~lv.call.result.is_prerelease

\* The package names of a result page, in page order.
RECURSIVE PageNames(_)
PageNames(anchors) ==
    IF anchors = <<>> THEN <<>>
    ELSE (IF Head(anchors).match THEN <<Head(anchors).name>> ELSE <<>>)
         \o PageNames(Tail(anchors))

\* C22: the registry client's search respects the limit: for every limit >= 0
\* and every result page it returns at most limit names, and they are the
\* first names of the page in page order.
C22_SearchLimit ==
    (sr.done /\ sr.page.ok)
    => /\ Len(sr.call.names) <= sr.limit
       /\ Len(sr.call.names) <= Len(PageNames(sr.page.anchors))
       /\ sr.call.names = SubSeq(PageNames(sr.page.anchors), 1, Len(sr.call.names))

\* For a positive limit the search returns the first limit names of the page,
\* or all of them when the page has fewer.
C22_SearchLimitPositive ==
    (sr.done /\ sr.page.ok /\ sr.limit >= 1)
    => LET all == PageNames(sr.page.anchors)
           n == IF Len(all) < sr.limit THEN Len(all) ELSE sr.limit
       IN  sr.call.names = SubSeq(all, 1, n)

\* The dev flags of a dependency list, in list order.
FlagsOf(deps) == [i \in DOMAIN deps |-> deps[i].is_dev_dependency]
NamesOf(deps) == [i \in DOMAIN deps |-> deps[i].name]
\* The flag every entry of an optional-dependency group should carry.
GroupFlags(g) ==
    [i \in DOMAIN g.entries |->
        Lower(g.group) \in {"dev", "test", "tests", "lint", "doc", "docs", "build"}]
\* Entry by entry, the flags and names a project-metadata document asks for:
\* the top-level list first, then the groups in document order.
ExpectedFlags(doc) ==
    [i \in DOMAIN doc.dependencies |-> FALSE]
    \o Concat([k \in DOMAIN doc.optional |-> GroupFlags(doc.optional[k])])
ExpectedNames(doc) ==
    [i \in DOMAIN doc.dependencies |-> doc.dependencies[i].name]
    \o Concat([k \in DOMAIN doc.optional |->
                 [i \in DOMAIN doc.optional[k].entries |-> doc.optional[k].entries[i].name]])

\* C23: in the project-metadata parser every entry of an optional-dependency
\* group is marked development-only if and only if the group's name, compared
\* case-insensitively, is one of dev, test, tests, lint, doc, docs, build;
\* every entry of the top-level list and of any other group is production.
C23_DevGroups ==
    (pr.done /\ pr.kind = "pyproject.toml")
    => IF pr.result.status = "ok"
       THEN /\ NamesOf(pr.result.deps) = ExpectedNames(pr.file.content)
            /\ FlagsOf(pr.result.deps) = ExpectedFlags(pr.file.content)
       ELSE pr.result.deps = <<>>

\* A document with a top-level entry, a group "Dev" or "TEST" and a group
\* "extra", all with entries, parsed into production and development records.
C23_Witness ==
    /\ pr.done /\ pr.kind = "pyproject.toml" /\ pr.result.status = "ok"
    /\ pr.file.content.dependencies # <<>>
    /\ \E i, j \in DOMAIN pr.file.content.optional :
          /\ pr.file.content.optional[i].group \in {"Dev", "TEST"}
          /\ pr.file.content.optional[i].entries # <<>>
          /\ pr.file.content.optional[j].group = "extra"
          /\ pr.file.content.optional[j].entries # <<>>
    /\ TRUE \in Range(FlagsOf(pr.result.deps))
    /\ Cardinality({i \in DOMAIN pr.result.deps : ~pr.result.deps[i].is_dev_dependency}) >= 2

\* The lines of a plain-list manifest that are neither blank nor a comment,
\* in file order; the manifest is valid when each of them is a requirement.
RequirementLines(content) == SelectSeq(content.lines, LAMBDA l : l.kind = "req")
ValidRequirements(content) ==
    \A i \in DOMAIN content.lines :
        content.lines[i].kind = "req" => content.lines[i].text.valid

\* C24: for every valid plain-list manifest parse_requirements_txt returns one
\* production dependency per non-blank, non-comment line, in the order of the
\* lines: as many records as such lines, the i-th from the i-th such line.
C24_OrderAndCount ==
    (pr.done /\ pr.kind = "requirements.txt" /\ ValidRequirements(pr.file.content))
    => LET lines == RequirementLines(pr.file.content) IN
       /\ pr.result.status = "ok"
       /\ Len(pr.result.deps) = Len(lines)
       /\ \A i \in DOMAIN lines :
             /\ pr.result.deps[i].name = lines[i].text.name
             /\ pr.result.deps[i] =
                   DepOfReq(Requirement(lines[i].text), PathOf("A", pr.kind), FALSE)
             /\ ~pr.result.deps[i].is_dev_dependency

\* Two different requirement lines among blank and comment lines.
C24_Witness ==
    /\ pr.done /\ pr.kind = "requirements.txt" /\ ValidRequirements(pr.file.content)
    /\ Len(pr.file.content.lines) > Len(RequirementLines(pr.file.content))
    /\ Len(pr.result.deps) = 2
    /\ pr.result.deps[1].name # pr.result.deps[2].name

\* The entries of a Pipfile, production section first, each with the flag of
\* its section.
PipEntriesOf(content) ==
    [i \in DOMAIN content.packages |-> [entry |-> content.packages[i], dev |-> FALSE]]
    \o [i \in DOMAIN content.dev_packages |-> [entry |-> content.dev_packages[i], dev |-> TRUE]]
\* The entry's name followed by its constraint is a requirement.
PipEntryParses(e) == e.name_ok /\ (e.value.star \/ e.value.ok)

\* C25: in the lockfile-table parser an entry whose name-plus-constraint is
\* no requirement never fails the file and yields an unconstrained dependency
\* with the entry's bare name; '*' yields an empty constraint; entries carry
\* the flag of their section; every entry of both sections yields one record.
C25_PipfileFallback ==
    (pr.done /\ pr.kind = "Pipfile" /\ pr.file.content.toml_ok)
    => LET entries == PipEntriesOf(pr.file.content) IN
       /\ pr.result.status = "ok"
       /\ Len(pr.result.deps) = Len(entries)
       /\ \A i \in DOMAIN entries :
             /\ pr.result.deps[i].name = entries[i].entry.name
             /\ pr.result.deps[i].is_dev_dependency = entries[i].dev
             /\ (~PipEntryParses(entries[i].entry) \/ entries[i].entry.value.star)
                => pr.result.deps[i].version_spec = EmptyText

\* The same holds of every Pipfile whose entry names are valid package names.
C25_PipfileFallbackValidNames ==
    (pr.done /\ pr.kind = "Pipfile" /\ pr.file.content.toml_ok
       /\ \A i \in DOMAIN PipEntriesOf(pr.file.content) :
             PipEntriesOf(pr.file.content)[i].entry.name_ok)
    => LET entries == PipEntriesOf(pr.file.content) IN
       /\ pr.result.status = "ok"
       /\ Len(pr.result.deps) = Len(entries)
       /\ \A i \in DOMAIN entries :
             /\ pr.result.deps[i].name = entries[i].entry.name
             /\ pr.result.deps[i].is_dev_dependency = entries[i].dev
             /\ (~PipEntryParses(entries[i].entry) \/ entries[i].entry.value.star)
                => pr.result.deps[i].version_spec = EmptyText

\* An analysis with no cache: scan the directory and parse every manifest
\* that is present now.
Uncached(F, d) ==
    LET files == ScanFiles(F, d)
    IN  [files |-> files, loop |-> RefreshLoop(F, files, 1, <<>>, <<>>)]

\* C26: cache coherence. In sequential use, in an environment where every
\* write of a manifest changes its modification time, each analyze_project
\* call returns the dependency_files and dependencies an analysis with no
\* cache returns for the directory's state at the call (and raises when that
\* one raises). No edit has happened since the call when last.at = edits.
C26_CacheCoherence ==
    (last.called /\ last.at = edits)
    => LET now == Uncached(fs, last.dir) IN
       /\ last.dependency_files = now.files
       /\ IF now.loop.status = "ok"
          THEN last.outcome = "returned" /\ last.dependencies = now.loop.deps
          ELSE last.outcome = "raised" /\ last.exc = now.loop.status

\* A call answered from the cache, after an edit and a re-analysis.
C26_Witness ==
    /\ last.called /\ last.at = edits /\ edits >= 1
    /\ ~last.refreshed /\ last.before.called
    /\ last.dependencies # <<>>
    /\ Len(cache.order) = 2

\* C27: the cache has no eviction and is keyed per directory. No step removes
\* a key; an entry is added or changed only by a refreshing analyze_project
\* call on that entry's own directory, so a call on A leaves the entry of
\* every other directory as it was; and a cache hit leaves the whole cache
\* unchanged.
C27_NoEviction ==
    [][/\ \A k \in DOMAIN cache.map : k \in DOMAIN cache'.map
       /\ \A k \in DOMAIN cache'.map :
             (k \notin DOMAIN cache.map \/ cache'.map[k] # cache.map[k])
             => (last'.called /\ last'.dir = k /\ last'.refreshed)
       /\ (last'.called /\ ~last'.refreshed) => cache' = cache]_vars

\* Both directories are cached and the one cached first was analyzed again
\* with a refresh.
C27_Witness ==
    /\ Len(cache.order) = 2
    /\ last.called /\ last.refreshed /\ last.before.called
    /\ last.dir = cache.order[1]
    /\ cache.map[cache.order[2]].dependencies # <<>>

\* C30: get_dependencies returns the dependency list of the project analyzed
\* most recently, and the empty list when nothing has been cached.
C30_MostRecent ==
    gd.called
    => /\ cache.order = <<>> => gd.result = <<>>
       /\ (last.called /\ last.outcome = "returned" /\ InCache(cache, last.dir))
          => gd.result = last.dependencies

\* get_dependencies returns the dependencies of the directory that entered
\* the cache last, whichever directory was analyzed most recently.
C30_LastInserted ==
    gd.called
    => gd.result = IF cache.order = <<>> THEN <<>>
                   ELSE cache.map[cache.order[Len(cache.order)]].dependencies

\* The dependency list handed over by the analysis holds a parse-error
\* sentinel.
HasSentinel(deps) == \E i \in DOMAIN deps : deps[i].name = "__parse_error__"

\* C28: the compatibility check on an analyzed dependency list that holds a
\* parse-error sentinel still returns a conflicts list: it does not raise,
\* and it reports no conflict from the sentinel's error text.
C28_SentinelTolerated ==
    (cc.done /\ HasSentinel(cc.existing))
    => /\ cc.call.outcome = "returned"
       /\ \A i \in DOMAIN cc.call.conflicts :
             cc.call.conflicts[i].package # "__parse_error__"

\* C29: for every release-map key that parses as a version, canonical or
\* not, _choose_version judges withdrawal against the file list stored under
\* that key (a key that satisfies the constraint and holds a file that is not
\* withdrawn is never passed over for a lower version), and the string it
\* returns is a key of the release map.
C29_OwnKeyFiles ==
    cv.done
    => /\ \A k \in DOMAIN cv.releases :
             (VersionOk(k) /\ Satisfies(cv.spec, VersionOf(k)) /\ AnyNotYanked(cv.releases[k]))
             => (VersionOk(cv.result) /\ VersionOf(cv.result) >= VersionOf(k))
       /\ VersionOk(cv.result) => cv.result \in DOMAIN cv.releases

\* Both hold of release maps whose keys are all in canonical form.
C29_OwnKeyFilesCanonicalKeys ==
    (cv.done /\ CanonicalKeys(cv.releases))
    => /\ \A k \in DOMAIN cv.releases :
             (VersionOk(k) /\ Satisfies(cv.spec, VersionOf(k)) /\ AnyNotYanked(cv.releases[k]))
             => (VersionOk(cv.result) /\ VersionOf(cv.result) >= VersionOf(k))
       /\ VersionOk(cv.result) => cv.result \in DOMAIN cv.releases

====
